---- MODULE Spec2Model ----
(***************************************************************************)
(* OWON VDS1022 host driver (src/api/python/vds1022/vds1022.py).           *)
(*                                                                         *)
(* The session object VDS1022 is shared by three threads: the caller of    *)
(* the API, the keep-alive thread started by the constructor and a         *)
(* consumer thread (Stream._run or the thread of plot) that drives the     *)
(* generator fetch_iter.  A thread is rescheduled at its blocking calls: a *)
(* USB bulk transfer, Event.wait, the acquisition of the session lock and  *)
(* a generator's yield.  One step of the model runs a thread from one      *)
(* blocking call to the next.                                              *)
(***************************************************************************)
EXTENDS Integers, Sequences, FiniteSets, TLC

(***************************************************************************)
(* Program constants.                                                      *)
(***************************************************************************)
CHANNELS == 2
CH1 == 0
CH2 == 1
EXT == 2
MULTI_OUT == 0
MULTI_IN == 2
AC == 0
DC == 1
EDGE == 0
VIDEO == 1
SLOPE == 2
PULSE == 3
RISE_SUP == 0
RISE_EQU == 1
RISE_INF == 2
FALL_SUP == -125          \* 3 - 128
FALL_EQU == -124          \* 4 - 128
FALL_INF == -123          \* 5 - 128
RISE == RISE_SUP
FALL == FALL_SUP
AUTO == 0
NORMAL == 1
ONCE == 2
GAIN == 0
AMPL == 1
COMP == 2
ATTENUATION_THRESHOLD == 6
ROLLMODE_THRESHOLD == 2500
ADC_SIZE == 5100
ADC_MAX == 125
ADC_MIN == -125
ADC_RANGE == 250
SAMPLES == 5000
AUTOSET_TRIES == 10     \* autoset: while tries < 10
READ_POLLS == 6         \* read_iter: for _ in range(6)
HTP_ERR == 11
TOP_RATE == 100000000           \* SAMPLING_RATES[-1]
\* VOLT_RANGES in millivolts
VOLT_RANGES == <<50, 100, 200, 500, 1000, 2000, 5000, 10000, 20000, 50000>>

Channels == 0 .. (CHANNELS - 1)
\* Python None where the other values are integers (False is 0, True is 1)
None == -1
\* sampling_rate before the first _push_sampling
NoRate == <<>>

(***************************************************************************)
(* Bounds of the model.                                                    *)
(***************************************************************************)
MaxCalls == 1        \* API calls made by each application thread
MaxFaults == 1       \* USB transfers that fail with USBError
MaxConfigs == 2      \* calls made by the thread that only configures
MaxAutoCalls == 1    \* calls of each application thread in the auto-ranging session
MaxPushIds == 50     \* _push calls after which fetch_iter starts no further cycle
MaxSlope == 3        \* steepest response of the synthetic device to a correction
MaxOffset == 6000    \* samples after which read_iter is not resumed
MaxNewCalls == 3     \* calls of the thread that constructs the session again
MaxNewFaults == 3    \* transfers that may fail while the session is constructed again

(***************************************************************************)
(* Arithmetic helpers.                                                     *)
(***************************************************************************)
_min(a, b) == IF b < a THEN b ELSE a
_max(a, b) == IF b > a THEN b ELSE a
_clip(x, lo, hi) == IF x < lo THEN lo ELSE IF x > hi THEN hi ELSE x

\* floor of n/d for d > 0
FloorDiv(n, d) == n \div d
\* int(n / d) for d > 0: towards zero
TruncDiv(n, d) == IF n >= 0 THEN n \div d ELSE 0 - ((0 - n) \div d)

\* Python round() of the rational n/d, d > 0: to nearest, ties to even
Round(n, d) ==
    LET f == FloorDiv(n, d)
        r == n - f * d
    IN  IF 2 * r < d THEN f
        ELSE IF 2 * r > d THEN f + 1
        ELSE IF f % 2 = 0 THEN f ELSE f + 1

\* VOLT_RANGES.index(v)
VoltIndex(v) == CHOOSE i \in 1 .. Len(VOLT_RANGES) : VOLT_RANGES[i] = v

\* _u16(lsb, msb)
_u16(lsb, msb) == (lsb % 256) + (msb % 256) * 256
_u8(x) == x % 256
_swap16(x) == ((x \div 256) % 256) + (x % 256) * 256

\* _iexp10(value, limit) for an integer value: <<mantissa, exponent>>
RECURSIVE Exp10(_, _, _)
Exp10(value, limit, e) ==
    IF value <= limit * (10 ^ e) THEN e ELSE Exp10(value, limit, e + 1)
_iexp10(value, limit) ==
    LET e == Exp10(value, limit, 0) IN <<Round(value, 10 ^ e), e>>

(***************************************************************************)
(* The command table: a command is named by its diagnostic name.           *)
(***************************************************************************)
SET_CHANNEL   == <<"SET_CHANNEL_CH1", "SET_CHANNEL_CH2">>
SET_ZERO_OFF  == <<"SET_ZERO_OFF_CH1", "SET_ZERO_OFF_CH2">>
SET_VOLT_GAIN == <<"SET_VOLT_GAIN_CH1", "SET_VOLT_GAIN_CH2">>
SET_EDGE_LEVEL  == <<"SET_EDGE_LEVEL_CH1", "SET_EDGE_LEVEL_CH2">>
SET_TRG_HOLDOFF == <<"SET_TRG_HOLDOFF_CH1", "SET_TRG_HOLDOFF_CH2">>
SET_FREQREF   == <<"SET_FREQREF_CH1", "SET_FREQREF_CH2">>
SET_SLOPE_THRED   == <<"SET_SLOPE_THRED_CH1", "SET_SLOPE_THRED_CH2">>
SET_TRG_CDT_EQU_H == <<"SET_TRG_CDT_EQU_H_CH1", "SET_TRG_CDT_EQU_H_CH2">>
SET_TRG_CDT_EQU_L == <<"SET_TRG_CDT_EQU_L_CH1", "SET_TRG_CDT_EQU_L_CH2">>
SET_TRG_CDT_GL    == <<"SET_TRG_CDT_GL_CH1", "SET_TRG_CDT_GL_CH2">>
SET_TRG_CDT_HL    == <<"SET_TRG_CDT_HL_CH1", "SET_TRG_CDT_HL_CH2">>

Commands ==
    { "SET_CHL_ON", "SET_PHASEFINE", "SET_PEAKMODE", "SET_DEEPMEMORY",
      "SET_PRE_TRG", "SET_SUF_TRG", "SET_MULTI", "SET_TRIGGER",
      "SET_TIMEBASE", "SET_ROLLMODE", "SET_RUNSTOP", "SET_FORCETRG",
      "GET_DATA", "GET_TRIGGERED", "GET_DATAFINISHED" }
    \cup { SET_CHANNEL[i] : i \in 1 .. 2 } \cup { SET_ZERO_OFF[i] : i \in 1 .. 2 }
    \cup { SET_VOLT_GAIN[i] : i \in 1 .. 2 } \cup { SET_EDGE_LEVEL[i] : i \in 1 .. 2 }
    \cup { SET_TRG_HOLDOFF[i] : i \in 1 .. 2 } \cup { SET_FREQREF[i] : i \in 1 .. 2 }
    \cup { SET_SLOPE_THRED[i] : i \in 1 .. 2 } \cup { SET_TRG_CDT_EQU_H[i] : i \in 1 .. 2 }
    \cup { SET_TRG_CDT_EQU_L[i] : i \in 1 .. 2 } \cup { SET_TRG_CDT_GL[i] : i \in 1 .. 2 }
    \cup { SET_TRG_CDT_HL[i] : i \in 1 .. 2 }

\* struct.Struct(format).size of the three command layouts
StructSize(struct) == CASE struct = "IBB" -> 6 [] struct = "IBH" -> 7 [] struct = "IBI" -> 9

\* CMD.Cmd.__init__(name, address, struct): size = struct.size - 5
Cmd(name, address, struct) ==
    [name |-> name, address |-> address, size |-> StructSize(struct) - 5]

\* the table of class CMD
CMD ==
    {
      Cmd("READ_FLASH", 432, "IBB"),
      Cmd("WRITE_FLASH", 416, "IBB"),
      Cmd("QUERY_FPGA", 547, "IBB"),
      Cmd("LOAD_FPGA", 16384, "IBI"),
      Cmd("EMPTY", 268, "IBB"),
      Cmd("GET_MACHINE", 16385, "IBB"),
      Cmd("GET_DATA", 4096, "IBH"),
      Cmd("GET_TRIGGERED", 1, "IBB"),
      Cmd("GET_VIDEOTRGD", 2, "IBB"),
      Cmd("SET_MULTI", 6, "IBH"),
      Cmd("SET_PEAKMODE", 9, "IBB"),
      Cmd("SET_ROLLMODE", 10, "IBB"),
      Cmd("SET_CHL_ON", 11, "IBB"),
      Cmd("SET_FORCETRG", 12, "IBB"),
      Cmd("SET_PHASEFINE", 24, "IBH"),
      Cmd("SET_TRIGGER", 36, "IBH"),
      Cmd("SET_VIDEOLINE", 50, "IBH"),
      Cmd("SET_TIMEBASE", 82, "IBI"),
      Cmd("SET_SUF_TRG", 86, "IBI"),
      Cmd("SET_PRE_TRG", 90, "IBH"),
      Cmd("SET_DEEPMEMORY", 92, "IBH"),
      Cmd("SET_RUNSTOP", 97, "IBB"),
      Cmd("GET_DATAFINISHED", 122, "IBB"),
      Cmd("GET_STOPPED", 177, "IBB"),
      Cmd("SET_CHANNEL_CH1", 273, "IBB"),
      Cmd("SET_CHANNEL_CH2", 272, "IBB"),
      Cmd("SET_ZERO_OFF_CH1", 266, "IBH"),
      Cmd("SET_ZERO_OFF_CH2", 264, "IBH"),
      Cmd("SET_VOLT_GAIN_CH1", 278, "IBH"),
      Cmd("SET_VOLT_GAIN_CH2", 276, "IBH"),
      Cmd("SET_SLOPE_THRED_CH1", 16, "IBH"),
      Cmd("SET_SLOPE_THRED_CH2", 18, "IBH"),
      Cmd("SET_EDGE_LEVEL_CH1", 46, "IBH"),
      Cmd("SET_EDGE_LEVEL_CH2", 48, "IBH"),
      Cmd("SET_TRG_HOLDOFF_CH1", 38, "IBH"),
      Cmd("SET_TRG_HOLDOFF_CH2", 42, "IBH"),
      Cmd("SET_TRG_CDT_EQU_H_CH1", 50, "IBH"),
      Cmd("SET_TRG_CDT_EQU_H_CH2", 58, "IBH"),
      Cmd("SET_TRG_CDT_EQU_L_CH1", 54, "IBH"),
      Cmd("SET_TRG_CDT_EQU_L_CH2", 62, "IBH"),
      Cmd("SET_TRG_CDT_GL_CH1", 66, "IBH"),
      Cmd("SET_TRG_CDT_GL_CH2", 70, "IBH"),
      Cmd("SET_TRG_CDT_HL_CH1", 68, "IBH"),
      Cmd("SET_TRG_CDT_HL_CH2", 72, "IBH"),
      Cmd("SET_FREQREF_CH1", 74, "IBB"),
      Cmd("SET_FREQREF_CH2", 75, "IBB")
    }

\* An argument of pack is an integer v, written <<hi, lo>> with
\* v = hi * 65536 + lo and 0 <= lo < 65536 (hi is negative for v < 0).
Wide(v) == <<v \div 65536, v % 65536>>

\* struct.pack accepts v for an unsigned field of size bytes
Fits(arg, size) ==
    CASE size = 1 -> arg[1] = 0 /\ arg[2] < 256
      [] size = 2 -> arg[1] = 0
      [] size = 4 -> arg[1] >= 0 /\ arg[1] < 65536

\* the little-endian bytes of an argument that fits size bytes
ValueBytes(arg, size) ==
    CASE size = 1 -> <<arg[2]>>
      [] size = 2 -> <<arg[2] % 256, arg[2] \div 256>>
      [] size = 4 -> <<arg[2] % 256, arg[2] \div 256, arg[1] % 256, arg[1] \div 256>>

PackError == <<-1>>      \* ValueError('Failed to pack ...')

\* a pack that kept the low bytes of a value too wide for the field
pack_truncating(cmd, arg) ==
    LET low == IF cmd.size = 1 THEN <<0, arg[2] % 256>>
               ELSE IF cmd.size = 2 THEN <<0, arg[2]>>
               ELSE <<arg[1] % 65536, arg[2]>>
    IN  <<cmd.address % 256, (cmd.address \div 256) % 256, 0, 0, cmd.size>>
           \o ValueBytes(low, cmd.size)

\* Cmd.pack(arg): struct.pack('<IB' + field, address, size, arg); struct.error
\* for a value outside the field becomes the ValueError
pack(cmd, arg) ==
    IF Fits(arg, cmd.size)
    THEN <<cmd.address % 256, (cmd.address \div 256) % 256,
           (cmd.address \div 65536) % 256, cmd.address \div 16777216, cmd.size>>
            \o ValueBytes(arg, cmd.size)
    ELSE PackError

\* struct.unpack_from of the value field of a packed command
unpack_value(bytes) ==
    LET at(i) == IF 5 + i <= Len(bytes) THEN bytes[5 + i] ELSE 0
    IN  <<at(3) + 256 * at(4), at(1) + 256 * at(2)>>

(***************************************************************************)
(* Threads.                                                                *)
(***************************************************************************)
Caller == "caller"
KeepAlive == "keepalive"
Consumer == "consumer"
Worker == "worker"          \* a second application thread
Threads == { Caller, KeepAlive, Consumer, Worker }
AppThreads == { Caller, Worker }
NoThread == "none"

VARIABLES
    handle,            \* self._handle is open
    lock,              \* owner of self._lock, or NoThread
    stopFlag,          \* self._stop (threading.Event)
    queue,             \* self._queue, in insertion order
    failures,          \* self._failures
    tries,             \* failed attempts of the transfer loop each thread is in (history)
    clockMoved,        \* self._clock differs from the keep-alive's copy of it
    calibration,       \* self.calibration[cal][chl][vb]
    on, probe, coupling, voltrange, voltoffset,
    rollmode, sweepmode, peakmode, sampling_rate, trigger_position,
    pc,                \* where each thread stands
    op,                \* the API call each thread is in
    cur,               \* the (cmd, arg) of the _send each thread is in
    ret,               \* where the thread continues after its _send
    sret,              \* where the thread continues after its _submit
    call,              \* the arguments of the caller's send(cmd, arg)
    pull,              \* locals of _pull_data: n, i; the channels whose frame it has yielded (history)
    frames,            \* fetch_iter's frames list
    nsubmit,           \* value returned by fetch_iter's last _submit
    nid,               \* number of _push calls so far (history)
    latest,            \* per command: argument of its latest _push, None once sent or cleared (history)
    discarded,         \* ids of the entries stop() removed from the queue (history)
    stopPending,       \* stop() was called while the iterator was in flight (history)
    callsLeft,         \* API calls each application thread may still make
    faultsLeft,        \* transient USB faults that may still happen
    plugged,           \* the device is on the bus; once unplugged every transfer fails
    unsettled,         \* the <<ical, vb, chl>> at which the device's zero never settles, or <<>>;
                       \* <<ical, vb, chl, slope>> for a synthetic device
    work,              \* calibrate's local table (the deepcopy of self.calibration)
    cstate,            \* locals of calibrate and _calibrate: ical, vb, i, states, on
    store,             \* the table in the calibration file, NoStore while there is none
    before,            \* self.calibration and the file when calibrate was called (history)
    auto,              \* locals of autoset: tries, hits, rate
    signal,            \* the signal at the probes: amplitude per channel (mV), frequency meter
    riter,             \* locals of read_iter: cursors, maxtime, offset, size, ...
    instance,          \* the object VDS1022._instance refers to, numbered from 1
    old_open,          \* earlier objects whose handle is still open
    packet,            \* a command, an argument and what Cmd.pack made of them
    polled,            \* fetch_iter: the sweep mode it tested and the replies to its polls (history)
    owed,              \* per thread: responses to the command it wrote last that it has not read (history)
    sent               \* the argument last written to the device, for the sampling commands (history)

devstate == <<on, probe, coupling, voltrange, voltoffset, rollmode, sweepmode,
              peakmode, sampling_rate, trigger_position>>
qvars == <<queue, nid, latest>>
sendvars == <<cur, ret, sret, call>>
fetchvars == <<pull, frames, nsubmit>>
objvars == <<instance, old_open, packet, polled, sent>>
unpolled == <<unsettled, work, cstate, store, before, auto, signal, riter, instance,
              old_open, packet, owed, sent>>
hostvars == <<unsettled, work, cstate, store, before, auto, signal, riter, objvars>>
calvars == <<hostvars, owed>>
vars == <<handle, lock, stopFlag, queue, failures, tries, clockMoved, calibration,
          on, probe, coupling, voltrange, voltoffset, rollmode, sweepmode,
          peakmode, sampling_rate, trigger_position, pc, op, cur, ret, sret, call, pull,
          frames, nsubmit, nid, latest, discarded, stopPending, callsLeft, faultsLeft,
          plugged, unsettled, work, cstate, store, before, auto, signal, riter, objvars, owed>>

(***************************************************************************)
(* The pending command queue (collections.OrderedDict).                    *)
(***************************************************************************)
Entry(cmd, arg, id) == [cmd |-> cmd, arg |-> arg, id |-> id]

\* OrderedDict.pop(cmd, None)
QueuePop(q, cmd) == SelectSeq(q, LAMBDA e : e.cmd # cmd)

\* OrderedDict[cmd] = arg: in place when cmd is a key, at the end otherwise
QueueSet(q, cmd, arg, id) ==
    IF \E i \in 1 .. Len(q) : q[i].cmd = cmd
    THEN [i \in 1 .. Len(q) |-> IF q[i].cmd = cmd THEN Entry(cmd, arg, id) ELSE q[i]]
    ELSE Append(q, Entry(cmd, arg, id))

\* _push as dict.setdefault would do it: a pending value is kept
_push_keep(q, cmd, arg, id) ==
    IF \E i \in 1 .. Len(q) : q[i].cmd = cmd THEN q ELSE Append(q, Entry(cmd, arg, id))

\* _push without the pop: a pending command is overwritten where it stands
_push_inplace(q, cmd, arg, id) == QueueSet(q, cmd, arg, id)

\* _push(cmd, arg)
_push(q, cmd, arg, id) == QueueSet(QueuePop(q, cmd), cmd, arg, id)

\* the queue, the push counter and the latest-push record, threaded through
\* the pushes of one handler
QState(q, n, l) == [q |-> q, n |-> n, l |-> l]

\* one _push on the threaded state (t ranges over the value of s, so that a
\* chain of pushes is evaluated once, from the first push to the last)
Push1(s, cmd, arg) ==
    CHOOSE r \in { QState(_push(t.q, cmd, arg, t.n + 1), t.n + 1,
                          [t.l EXCEPT ![cmd] = arg]) : t \in {s} } : TRUE

RECURSIVE PushSeq(_, _)
PushSeq(s, pairs) ==
    IF pairs = <<>> THEN s
    ELSE PushSeq(Push1(s, pairs[1][1], pairs[1][2]), Tail(pairs))

NoLatest == [c \in Commands |-> None]

(***************************************************************************)
(* Device State -> register values.                                        *)
(* voltrange is in millivolts, voltoffset in millionths, trigger_position  *)
(* in thousandths, sampling_rate is the rational <<TOP_RATE, prescaler>>   *)
(* (None before the first _push_sampling).                                 *)
(***************************************************************************)
PHASEFINE == 0      \* self.phasefine as read from the flash image

\* calibration as loaded at connect time: [cal][chl][vb]
FlashCalibration ==
    [cal \in 0 .. 2 |-> [chl \in Channels |-> [vb \in 1 .. 10 |->
        CASE cal = GAIN -> 1000 + 10 * vb + chl
          [] cal = AMPL -> 140 + vb
          [] OTHER      -> 540 + 2 * vb + chl ]]]

Bit(b) == IF b THEN 1 ELSE 0

\* the three pushes of _push_channel(chl)
PushChannel(s, chl, cal, onv, cpl, vr, vo) ==
    LET vb        == VoltIndex(vr[chl])
        attenuate == (vb - 1) >= ATTENUATION_THRESHOLD
        cal_comp  == cal[COMP][chl][vb]
        cal_ampl  == cal[AMPL][chl][vb]
        cal_gain  == cal[GAIN][chl][vb]
        \* pos0 = ADC_RANGE * voltoffset; round(cal_comp - pos0 * cal_ampl / 100)
        zero_arg  == _clip(Round(cal_comp * 400000 - vo[chl] * cal_ampl, 400000), 0, 4095)
        gain_arg  == _clip(cal_gain, 0, 4095)
        chl_arg   == Bit(attenuate) * 2 + cpl[chl] * 32 + Bit(onv[chl]) * 128
    IN  PushSeq(s, << <<SET_ZERO_OFF[chl + 1], zero_arg>>,
                      <<SET_VOLT_GAIN[chl + 1], gain_arg>>,
                      <<SET_CHANNEL[chl + 1], chl_arg>> >>)

\* rate = <<n, d>> is the rational n/d
RateMax3(rate) == IF rate[1] > 3 * rate[2] THEN rate ELSE <<3, 1>>
\* round(SAMPLING_RATES[-1] / _max(3, rate)), the quotient reduced by the
\* common divisor so that the product stays in the range of the integers
RECURSIVE GCD(_, _)
GCD(a, b) == IF b = 0 THEN a ELSE GCD(b, a % b)
Prescaler(rate) ==
    LET r == RateMax3(rate)
        g == GCD(TOP_RATE, r[1])
    IN  _max(1, Round((TOP_RATE \div g) * r[2], r[1] \div g))

\* a _push_sampling that queues SET_TIMEBASE without comparing the new rate
\* to self.sampling_rate
PushSampling_always(s, st, rate, roll, peak) ==
    LET prescaler == Prescaler(rate)
        rm  == IF roll = None THEN Bit(prescaler > TOP_RATE \div ROLLMODE_THRESHOLD) ELSE roll
        s1  == Push1(s, "SET_TIMEBASE", prescaler)
        s2  == IF rm # st.rollmode
               THEN PushSeq(s1, << <<"SET_ROLLMODE", rm>>,
                                   <<"SET_DEEPMEMORY", ADC_SIZE + (IF rm = 1 THEN 3 ELSE 0)>> >>)
               ELSE s1
        pk  == peak # None /\ peak # st.peakmode
    IN  [s |-> IF pk THEN Push1(s2, "SET_PEAKMODE", peak) ELSE s2,
         sampling_rate |-> <<TOP_RATE, prescaler>>,
         rollmode |-> rm,
         peakmode |-> IF pk THEN peak ELSE st.peakmode,
         trigger_position |-> IF rm = 1 THEN 1000 ELSE st.trigger_position]

\* a _push_sampling that leaves the memory depth at ADC_SIZE in roll mode
PushSampling_shallow(s, st, rate, roll, peak) ==
    LET prescaler == Prescaler(rate)
        sr  == <<TOP_RATE, prescaler>>
        rm  == IF roll = None THEN Bit(prescaler > TOP_RATE \div ROLLMODE_THRESHOLD) ELSE roll
        s1  == IF sr # st.sampling_rate
               THEN Push1(s, "SET_TIMEBASE", prescaler) ELSE s
        s2  == IF rm # st.rollmode
               THEN PushSeq(s1, << <<"SET_ROLLMODE", rm>>, <<"SET_DEEPMEMORY", ADC_SIZE>> >>)
               ELSE s1
        pk  == peak # None /\ peak # st.peakmode
        s3  == IF pk THEN Push1(s2, "SET_PEAKMODE", peak) ELSE s2
    IN  [s |-> s3,
         sampling_rate |-> sr,
         rollmode |-> rm,
         peakmode |-> IF pk THEN peak ELSE st.peakmode,
         trigger_position |-> IF rm = 1 THEN 1000 ELSE st.trigger_position]

\* _push_sampling(rate, roll, peak): the new fields and the queue
\* st = [sampling_rate, rollmode, peakmode, trigger_position]; roll, peak, rollmode
\* and peakmode are 0, 1 or None
PushSampling(s, st, rate, roll, peak) ==
    LET prescaler == Prescaler(rate)
        sr  == <<TOP_RATE, prescaler>>
        rm  == IF roll = None THEN Bit(prescaler > TOP_RATE \div ROLLMODE_THRESHOLD) ELSE roll
        s1  == IF sr # st.sampling_rate
               THEN Push1(s, "SET_TIMEBASE", prescaler) ELSE s
        s2  == IF rm # st.rollmode
               THEN PushSeq(s1, << <<"SET_ROLLMODE", rm>>,
                                   <<"SET_DEEPMEMORY", ADC_SIZE + (IF rm = 1 THEN 3 ELSE 0)>> >>)
               ELSE s1
        pk  == peak # None /\ peak # st.peakmode
        s3  == IF pk THEN Push1(s2, "SET_PEAKMODE", peak) ELSE s2
    IN  [s |-> s3,
         sampling_rate |-> sr,
         rollmode |-> rm,
         peakmode |-> IF pk THEN peak ELSE st.peakmode,
         trigger_position |-> IF rm = 1 THEN 1000 ELSE st.trigger_position]

\* the defaults _initialize assigns
DefaultOn == [c \in Channels |-> FALSE]
DefaultProbe == [c \in Channels |-> 10]
DefaultCoupling == [c \in Channels |-> DC]
DefaultVoltrange == [c \in Channels |-> 2000]
DefaultVoltoffset == [c \in Channels |-> 0]

RECURSIVE InitChannels(_, _, _)
InitChannels(s, chl, cal) ==
    IF chl = CHANNELS THEN s
    ELSE InitChannels(
            PushChannel(
                PushSeq(s, << <<SET_TRG_HOLDOFF[chl + 1], 32770>>,          \* 0x8002
                              <<SET_EDGE_LEVEL[chl + 1], _u16(127, -128)>>,
                              <<SET_FREQREF[chl + 1], 20>> >>),
                chl, cal, DefaultOn, DefaultCoupling, DefaultVoltrange, DefaultVoltoffset),
            chl + 1, cal)

\* _initialize(): the queue is cleared, the defaults are pushed
Initialized(n, cal) ==
    LET q0 == QState(<<>>, n, NoLatest)
        q1 == PushSeq(q0, << <<"SET_CHL_ON", 0>>, <<"SET_PHASEFINE", PHASEFINE>>,
                             <<"SET_PEAKMODE", 0>>, <<"SET_DEEPMEMORY", ADC_SIZE>>,
                             <<"SET_PRE_TRG", ADC_SIZE>>, <<"SET_SUF_TRG", 0>>,
                             <<"SET_MULTI", 0>>, <<"SET_TRIGGER", 0>> >>)
        q2 == InitChannels(q1, 0, cal)
    IN  PushSampling(q2, [sampling_rate |-> NoRate, rollmode |-> None,
                          peakmode |-> 0, trigger_position |-> 0],
                     <<250000, 1>>, 0, 0)

(***************************************************************************)
(* calibrate and _calibrate: the pure part.                                *)
(* A table is indexed [cal][chl][vb + 1]; the device reports the mean of   *)
(* the samples as a whole number of ADC steps.                             *)
(***************************************************************************)
ROUNDS == 10        \* for i in range(10)
HITS == 3           \* if hits < 3
COMP_MIN == 500
COMP_MAX == 600
AMPL_MIN == 100
AMPL_MAX == 200
AMPL_POS0 == -100   \* pos0 and target of the AMPL steps
ERR_NEAR == 2       \* abs(err) < 2
ERR_SLOW == 10      \* abs(err) < 10
STEPS_MAX == 100
\* the error a channel reports at a point where its zero does not settle
ERR_FAR == 20

NoStore == <<>>          \* the calibration file was not written
NoTable == <<>>          \* no table: calibrate() was not called
NoPoint == <<>>
Abs(x) == IF x < 0 THEN 0 - x ELSE x
\* ceil(n / d) for d > 0
CeilDiv(n, d) == 0 - ((0 - n) \div d)

\* calibrate: the working copy with COMP and AMPL clipped
Clipped(cal) ==
    [c \in 0 .. 2 |-> [chl \in Channels |-> [v \in 1 .. Len(VOLT_RANGES) |->
        CASE c = COMP -> _clip(cal[c][chl][v], COMP_MIN, COMP_MAX)
          [] c = AMPL -> _clip(cal[c][chl][v], AMPL_MIN, AMPL_MAX)
          [] OTHER    -> cal[c][chl][v] ]]]

\* pos0 and target of a step
Pos0(ical) == IF ical = COMP THEN 0 ELSE AMPL_POS0

\* the locals of _calibrate when it starts the step (ical, vb)
NoStates == [chl \in Channels |-> [hits |-> 0, steps |-> 0, cal_prev |-> 0, err_prev |-> 0]]
StartStep(ical, vb) ==
    [phase |-> "steps", ical |-> ical, vb |-> vb, i |-> 0, states |-> NoStates,
     on |-> [chl \in Channels |-> TRUE]]
NoCalibrate == [phase |-> "", ical |-> 0, vb |-> 0, i |-> 0, states |-> NoStates,
                on |-> [chl \in Channels |-> FALSE]]

\* a calibrate that does the AMPL step of a range right after its COMP step
NextStep_paired(ical, vb) ==
    IF ical = COMP THEN <<AMPL, vb>>
    ELSE IF vb > 0 THEN <<COMP, vb - 1>> ELSE NoPoint

\* the step calibrate runs after (ical, vb): COMP from the last range down to
\* the first, then AMPL from the first range up; NoPoint after the last one
NextStep(ical, vb) ==
    IF ical = COMP
    THEN IF vb > 0 THEN <<COMP, vb - 1>> ELSE <<AMPL, 0>>
    ELSE IF vb < Len(VOLT_RANGES) - 1 THEN <<AMPL, vb + 1>> ELSE NoPoint

\* _calibrate: the SET_CHANNEL pushes at the start of a step (coupling AC)
RECURSIVE PushStepChannels(_, _, _)
PushStepChannels(s, vb, chl) ==
    IF chl = CHANNELS THEN s
    ELSE PushStepChannels(
            Push1(s, SET_CHANNEL[chl + 1],
                  Bit(vb >= ATTENUATION_THRESHOLD) * 2 + AC * 32 + 128),
            vb, chl + 1)

\* _calibrate: the pushes of one round, for each channel
\* zero_off = round(cal_comp - pos0 * cal_ampl / 100)
RECURSIVE PushRound(_, _, _, _, _)
PushRound(s, w, ical, vb, chl) ==
    IF chl = CHANNELS THEN s
    ELSE PushRound(
            PushSeq(s, << <<SET_ZERO_OFF[chl + 1],
                            Round(w[COMP][chl][vb + 1] * 100 - Pos0(ical) * w[AMPL][chl][vb + 1], 100)>>,
                          <<SET_VOLT_GAIN[chl + 1], w[GAIN][chl][vb + 1]>> >>),
            w, ical, vb, chl + 1)

\* _calibrate: the body of the loop over _pull_data for a frame of chl whose
\* samples have the mean  target + err: the new locals and the new table
CalFrame(cs, w, chl, err) ==
    LET st      == cs.states[chl]
        cal     == w[cs.ical][chl][cs.vb + 1]
        hits    == IF st.steps = 1 /\ Abs(err) < ERR_NEAR THEN st.hits + 1 ELSE 0
        d       == Abs(st.err_prev - err)
        \* ceil(abs(err) * scale), scale = steps / _max(0.5, d) if steps else 1
        move    == IF st.steps = 0 THEN Abs(err)
                   ELSE IF d = 0 THEN Abs(err) * st.steps * 2
                   ELSE CeilDiv(Abs(err) * st.steps, d)
        ceiling == IF Abs(err) < ERR_SLOW THEN st.steps - 1 ELSE STEPS_MAX
        steps   == _max(1, _min(ceiling, move))
        \* round(copysign(steps, err)): the targets are <= 0
        correction == IF err >= 0 THEN steps ELSE 0 - steps
    IN  IF hits < HITS
        THEN [cs |-> [cs EXCEPT !.states[chl] =
                         [hits |-> hits, steps |-> steps, cal_prev |-> cal, err_prev |-> err]],
              w  |-> [w EXCEPT ![cs.ical][chl][cs.vb + 1] = cal + correction]]
        ELSE [cs |-> [cs EXCEPT !.on[chl] = FALSE],
              w  |-> IF Abs(st.err_prev) < Abs(err)
                     THEN [w EXCEPT ![cs.ical][chl][cs.vb + 1] = st.cal_prev]
                     ELSE w]

\* the synthetic devices: the point at which the mean follows the correction,
\* and the slope of f in ADC steps per unit of the table
ZERO_SHIFT == 4
SyntheticPoints ==
    { <<COMP, Len(VOLT_RANGES) - 1, CH1, slope>> : slope \in 1 .. MaxSlope }

\* the points at which the device of this model may fail to settle
UnsettledPoints == { <<COMP, Len(VOLT_RANGES) - 2, CH1>>, <<AMPL, 1, CH2>> }

(***************************************************************************)
(* Initial state: the session as the constructor leaves it (_initialize    *)
(* has queued the defaults, nothing has been flushed, the keep-alive       *)
(* thread has been started).                                               *)
(***************************************************************************)
NoFrame == <<>>
NoEntry == Entry("", 0, 0)
NoPull == [n |-> 0, i |-> 0, chls |-> <<>>, yielded |-> <<>>]
\* autoset is not running
NoAutoset == [tries |-> 0, hits |-> 0, rate |-> 0]
\* read_iter is not running
NoReadIter == [chls |-> <<>>, maxtime |-> 0, elapsed |-> 0, first |-> FALSE, polls |-> 0,
               cursors |-> [c \in Channels |-> 0], offset |-> 0, size |-> 0]
\* the commands whose argument mirrors sampling_rate, rollmode and peakmode;
\* nothing has been written to the device since the FPGA was loaded
SamplingCmds == {"SET_TIMEBASE", "SET_ROLLMODE", "SET_PEAKMODE"}
NoSent == [c \in SamplingCmds |-> None]
\* fetch_iter has not tested the sweep mode yet
NoPolls == [mode |-> None, fin |-> None, trg |-> None, since |-> 0]
\* nothing is connected to the probes
NoSignal == [ampl |-> <<0, 0>>, time_sum |-> 0, period_num |-> 0]

\* u: the point at which the connected device does not settle, or NoPoint;
\* n: the calls each application thread may make; f: the transient USB faults;
\* sig: the signal at the probes
InitObject(u, n, f, sig, pk) ==
    LET r == Initialized(0, FlashCalibration)
    IN  /\ handle = TRUE
        /\ lock = NoThread
        /\ stopFlag = FALSE
        /\ queue = r.s.q
        /\ nid = r.s.n
        /\ latest = r.s.l
        /\ failures = 0
        /\ tries = [t \in Threads |-> 0]
        /\ clockMoved = FALSE
        /\ calibration = FlashCalibration
        /\ on = DefaultOn
        /\ probe = DefaultProbe
        /\ coupling = DefaultCoupling
        /\ voltrange = DefaultVoltrange
        /\ voltoffset = DefaultVoltoffset
        /\ rollmode = r.rollmode
        /\ sweepmode = None
        /\ peakmode = r.peakmode
        /\ sampling_rate = r.sampling_rate
        /\ trigger_position = r.trigger_position
        /\ pc = [t \in Threads |->
                   CASE t \in AppThreads -> "idle" [] t = KeepAlive -> "ka_top"
                     [] OTHER -> "f_new"]
        /\ op = [t \in Threads |->
                   CASE t \in AppThreads -> "" [] t = KeepAlive -> "run"
                     [] OTHER -> "fetch_iter"]
        /\ cur = [t \in Threads |-> NoEntry]
        /\ ret = [t \in Threads |-> ""]
        /\ sret = [t \in Threads |-> ""]
        /\ call = NoEntry
        /\ pull = NoPull
        /\ frames = [c \in Channels |-> NoFrame]
        /\ nsubmit = 0
        /\ discarded = {}
        /\ stopPending = FALSE
        /\ callsLeft = [t \in AppThreads |-> n]
        /\ faultsLeft = f
        /\ plugged = TRUE
        /\ unsettled = u
        /\ work = NoTable
        /\ cstate = NoCalibrate
        /\ store = NoStore
        /\ before = [calibration |-> NoTable, store |-> NoStore]
        /\ auto = NoAutoset
        /\ signal = sig
        /\ riter = NoReadIter
        /\ instance = 1
        /\ old_open = {}
        /\ packet = pk
        /\ polled = NoPolls
        /\ owed = [t \in Threads |-> 0]
        /\ sent = NoSent

NotPacked == <<>>
NoPacket == [cmd |-> "", arg |-> <<0, 0>>, out |-> NotPacked]

InitState(u, n, f, sig) == InitObject(u, n, f, sig, NoPacket)

\* u: the point at which the device does not settle; every application thread
\* makes at most MaxCalls calls
InitDevice(u) == InitState(u, MaxCalls, MaxFaults, NoSignal)
Init == InitDevice(NoPoint)

Set(f, t, v) == [f EXCEPT ![t] = v]
Ids(q) == { q[i].id : i \in 1 .. Len(q) }

(***************************************************************************)
(* _send: write, read, retry on USBError (_on_usb_err).                    *)
(***************************************************************************)
\* where an exception leaves thread t: the handlers around the failing call.
\*   stop():           except USBError -> _release(), the lock is released, returns None
\*                     (to __new__, which then makes a new object)
\*   keep-alive run(): except USBError -> the lock is released, dispose() sets the stop flag
\*   elsewhere, and for any other exception: the with-block releases the lock
\*   and the exception ends the call (the generator, the thread)
Raised(t, usb) ==
    /\ lock' = IF lock = t THEN NoThread ELSE lock
    /\ tries' = Set(tries, t, 0)
    /\ IF usb /\ op[t] \in {"stop", "new"}
       THEN /\ handle' = FALSE
            /\ pc' = Set(pc, t, IF op[t] = "new" THEN "new_obj" ELSE "idle")
            /\ UNCHANGED stopFlag
       ELSE IF usb /\ t = KeepAlive
       THEN /\ stopFlag' = TRUE
            /\ pc' = Set(pc, t, "ka_dispose")
            /\ UNCHANGED handle
       ELSE /\ pc' = Set(pc, t, CASE t = Caller -> "idle"
                                  [] t = KeepAlive -> "ka_done"
                                  [] t = Worker -> "c_raised"
                                  [] OTHER -> "f_done")
            /\ UNCHANGED <<handle, stopFlag>>

\* _on_usb_err(ex) for a transfer of thread t; retry is where the loop resumes
OnUsbErr(t, retry) ==
    /\ failures' = failures + 1
    /\ IF failures + 1 > 2
       THEN Raised(t, TRUE)
       ELSE /\ pc' = Set(pc, t, retry)
            /\ tries' = Set(tries, t, tries[t] + 1)
            /\ UNCHANGED <<handle, lock, stopFlag>>

\* the loop of _submit and of send, from the test of the queue to the bulk
\* write of the next _send: while self._queue: self._send(*popitem(False));
\* q and l are the queue and the latest-push record at that point, after is
\* where thread t continues once the queue is empty
_submit(t, q, l, after) ==
    /\ sret' = Set(sret, t, after)
    /\ IF q # <<>>
       THEN /\ queue' = Tail(q)
            /\ latest' = [l EXCEPT ![Head(q).cmd] = None]
            /\ cur' = Set(cur, t, Head(q))
            /\ ret' = Set(ret, t, "submit")
            /\ pc' = Set(pc, t, "send_w")
       ELSE /\ queue' = q
            /\ latest' = l
            /\ pc' = Set(pc, t, after)
            /\ UNCHANGED <<cur, ret>>

\* self._bulk_write(cmd.pack(arg)) of _send
SendWrite(t) ==
    /\ pc[t] = "send_w"
    /\ \/ /\ handle /\ plugged
          /\ clockMoved' = TRUE
          /\ pc' = Set(pc, t, "send_r")
          /\ owed' = Set(owed, t, 1)
          /\ sent' = IF cur[t].cmd \in SamplingCmds
                     THEN [sent EXCEPT ![cur[t].cmd] = cur[t].arg] ELSE sent
          /\ UNCHANGED <<handle, lock, stopFlag, failures, tries, faultsLeft>>
       \/ /\ handle /\ (faultsLeft > 0 \/ ~plugged)     \* USBError
          /\ faultsLeft' = IF plugged THEN faultsLeft - 1 ELSE faultsLeft
          /\ OnUsbErr(t, "send_w")
          /\ UNCHANGED <<clockMoved, owed, sent>>
       \/ /\ ~handle         \* self._usb is None: AttributeError
          /\ Raised(t, FALSE)
          /\ UNCHANGED <<failures, faultsLeft, clockMoved, owed, sent>>
    /\ UNCHANGED <<qvars, calibration, devstate, op, sendvars, fetchvars,
                   discarded, stopPending, callsLeft, plugged, unsettled, work, cstate,
                   store, before, auto, signal, riter, instance, old_open, packet, polled>>

\* self._bulk_read(self._buffer, 5) of _send; on success _send returns and
\* the thread runs on to its next blocking call
SendRead(t) ==
    /\ pc[t] = "send_r"
    /\ \/ /\ handle /\ plugged
          /\ failures' = 0
          /\ owed' = Set(owed, t, 0)
          /\ tries' = Set(tries, t, 0)
          /\ IF ret[t] = "submit"
             THEN _submit(t, queue, latest, sret[t])
             ELSE /\ pc' = Set(pc, t, ret[t])
                  /\ UNCHANGED <<queue, latest, cur, ret, sret>>
          /\ UNCHANGED <<handle, lock, stopFlag, faultsLeft>>
       \/ /\ handle /\ (faultsLeft > 0 \/ ~plugged)     \* USBError
          /\ faultsLeft' = IF plugged THEN faultsLeft - 1 ELSE faultsLeft
          /\ OnUsbErr(t, "send_w")
          /\ UNCHANGED <<queue, latest, cur, ret, sret, owed>>
       \/ /\ ~handle
          /\ Raised(t, FALSE)
          /\ UNCHANGED <<failures, faultsLeft, queue, latest, cur, ret, sret, owed>>
    /\ UNCHANGED <<nid, call, clockMoved, calibration, devstate, op, fetchvars,
                   discarded, stopPending, callsLeft, plugged, hostvars>>

\* a reply of the wrong length handled as a USBError would be
ShortReadRetried(t) == OnUsbErr(t, "send_w")

\* _bulk_read: assert size is None or ret == size.  The AssertionError is
\* raised before self._failures = 0 and is not a USBError: the except clause
\* of _send lets it through, the with-block of the caller releases the lock
ShortRead(t) ==
    /\ lock' = IF lock = t THEN NoThread ELSE lock
    /\ tries' = Set(tries, t, 0)
    /\ pc' = Set(pc, t, "asserted")
    /\ UNCHANGED <<handle, stopFlag, failures>>

\* self._bulk_read(self._buffer, 5) of _send when the device answers with a
\* number of bytes other than 5
SendReadShort(t) ==
    /\ pc[t] = "send_r"
    /\ handle /\ plugged
    /\ ShortRead(t)
    /\ owed' = Set(owed, t, 0)
    /\ UNCHANGED <<qvars, sendvars, clockMoved, calibration, devstate, op, fetchvars,
                   discarded, stopPending, callsLeft, faultsLeft, plugged, hostvars>>

(***************************************************************************)
(* The caller thread: configuration calls, send, stop and the              *)
(* re-construction VDS1022() of the connected singleton.                   *)
(***************************************************************************)
\* _find_ge(VOLT_RANGES, x) = bisect.bisect_left: number of entries below x
\* (0-based index of the first entry >= x)
_find_ge(arr, x) == Cardinality({ i \in 1 .. Len(arr) : arr[i] < x })

\* the arguments the caller passes in this model: range in microvolts,
\* offset in thousandths, rate as a rational <<n, d>>
SetChannelArgs ==
    { [channel |-> CH2, range |-> 3000000, offset |-> 100, probe |-> 1, coupling |-> AC] }
SetSamplingArgs ==
    { [rate |-> <<25000, 1>>, roll |-> None, peak |-> 0] }
SendArgs ==
    { [cmd |-> "SET_MULTI", arg |-> 1] }

\* vr_ask = round(voltrange / probe, 3), in millivolts
VrAsk(range, ratio) == Round(range, 1000 * ratio)

\* the asserts of set_channel hold and VOLT_RANGES[_find_ge(...)] exists
SetChannelAccepts(a) ==
    /\ a.channel \in {CH1, CH2}
    /\ 0 <= a.offset /\ a.offset <= 1000
    /\ a.probe >= 1
    /\ _find_ge(VOLT_RANGES, VrAsk(a.range, a.probe)) < Len(VOLT_RANGES)

\* set_channel(channel, range, offset, probe, coupling) called by thread t;
\* no lock is taken; a failed assert (or the IndexError of VOLT_RANGES[...])
\* ends the call before any assignment
set_channel(t, a) ==
    LET chl    == a.channel
        vr_ask == VrAsk(a.range, a.probe)
        ivr    == _find_ge(VOLT_RANGES, vr_ask) + 1
        on1    == [on EXCEPT ![chl] = TRUE]
        cp1    == [coupling EXCEPT ![chl] = a.coupling]
        vr1    == [voltrange EXCEPT ![chl] = VOLT_RANGES[ivr]]
        vo1    == [voltoffset EXCEPT ![chl] = (a.offset - 500) * 1000]
        s1     == PushChannel(QState(queue, nid, latest), chl, calibration, on1, cp1, vr1, vo1)
    IN  /\ pc[t] = "idle" /\ callsLeft[t] > 0
        /\ callsLeft' = Set(callsLeft, t, callsLeft[t] - 1)
        /\ IF SetChannelAccepts(a)
           THEN /\ on' = on1
                /\ coupling' = cp1
                /\ voltrange' = vr1
                /\ voltoffset' = vo1
                /\ probe' = [probe EXCEPT ![chl] = a.probe]
                /\ queue' = s1.q /\ nid' = s1.n /\ latest' = s1.l
                /\ UNCHANGED pc
           ELSE /\ pc' = Set(pc, t, "rejected")
                /\ UNCHANGED <<on, coupling, voltrange, voltoffset, probe, qvars>>
        /\ UNCHANGED <<handle, lock, stopFlag, failures, clockMoved, calibration,
                       rollmode, sweepmode, peakmode, sampling_rate, trigger_position,
                       op, sendvars, fetchvars, discarded, stopPending,
                       faultsLeft, plugged, tries, calvars>>

\* SAMPLING_RATES[0] <= rate <= SAMPLING_RATES[-1] for the rational rate
RateInRange(rate) ==
    /\ 2 * rate[1] >= 5 * rate[2]
    /\ 0 - ((0 - rate[1]) \div rate[2]) <= TOP_RATE        \* ceil(n / d) <= top rate

\* a _push_sampling that ended with self._submit() would start the transfer
\* of the first queued command before the call returns
ConfigSampling_submitting(t, rate, roll, peak) ==
    LET r == PushSampling(QState(queue, nid, latest),
                          [sampling_rate |-> sampling_rate, rollmode |-> rollmode,
                           peakmode |-> peakmode, trigger_position |-> trigger_position],
                          rate, roll, peak)
    IN  /\ pc[t] = "idle" /\ callsLeft[t] > 0
        /\ callsLeft' = Set(callsLeft, t, callsLeft[t] - 1)
        /\ IF RateInRange(rate)
           THEN /\ sampling_rate' = r.sampling_rate
                /\ rollmode' = r.rollmode
                /\ peakmode' = r.peakmode
                /\ trigger_position' = r.trigger_position
                /\ nid' = r.s.n
                /\ _submit(t, r.s.q, r.s.l, "idle")
           ELSE /\ pc' = Set(pc, t, "rejected")
                /\ UNCHANGED <<sampling_rate, rollmode, peakmode, trigger_position,
                               qvars, cur, ret, sret>>
        /\ UNCHANGED <<handle, lock, stopFlag, failures, clockMoved, calibration,
                       on, probe, coupling, voltrange, voltoffset, sweepmode,
                       op, call, fetchvars, discarded, stopPending,
                       faultsLeft, plugged, tries, calvars>>

\* the body set_sampling and set_timerange share: the assert, _push_sampling
ConfigSampling(t, rate, roll, peak) ==
    LET r == PushSampling(QState(queue, nid, latest),
                          [sampling_rate |-> sampling_rate, rollmode |-> rollmode,
                           peakmode |-> peakmode, trigger_position |-> trigger_position],
                          rate, roll, peak)
    IN  /\ pc[t] = "idle" /\ callsLeft[t] > 0
        /\ callsLeft' = Set(callsLeft, t, callsLeft[t] - 1)
        /\ IF RateInRange(rate)
           THEN /\ sampling_rate' = r.sampling_rate
                /\ rollmode' = r.rollmode
                /\ peakmode' = r.peakmode
                /\ trigger_position' = r.trigger_position
                /\ queue' = r.s.q /\ nid' = r.s.n /\ latest' = r.s.l
                /\ UNCHANGED pc
           ELSE /\ pc' = Set(pc, t, "rejected")
                /\ UNCHANGED <<sampling_rate, rollmode, peakmode, trigger_position, qvars>>
        /\ UNCHANGED <<handle, lock, stopFlag, failures, clockMoved, calibration,
                       on, probe, coupling, voltrange, voltoffset, sweepmode,
                       op, sendvars, fetchvars, discarded, stopPending,
                       faultsLeft, plugged, tries, calvars>>

\* set_sampling(rate, roll, peak) called by thread t; no lock is taken
set_sampling(t, a) == ConfigSampling(t, a.rate, a.roll, a.peak)

\* set_timerange(range, roll, peak): rate = SAMPLES / timerange, the range
\* being the rational a.range[1] / a.range[2] seconds
set_timerange(t, a) ==
    /\ a.range[1] > 0
    /\ ConfigSampling(t, <<SAMPLES * a.range[2], a.range[1]>>, a.roll, a.peak)

VFPGA == 3          \* self.vfpga: a newer board

Max2(a, b) == IF a > b THEN a ELSE b
Min2(a, b) == IF a < b THEN a ELSE b

\* lvls of set_trigger: round((v / vr + voltoffset) * ADC_RANGE), v and vr in
\* millivolts, voltoffset in millionths (vr is a multiple of 50)
TriggerLevel(v, chl) ==
    LET vr == probe[chl] * voltrange[chl]
    IN  Round(20000 * v + voltoffset[chl] * (vr \div 50), 80 * vr)

\* a trigger word that carries the sweep mode in the alternate layout too
TriggerWord_sweeping(chl, mode, condition, sweep, alternate) ==
    Bit(chl = EXT) + Bit(alternate) * 32768
    + (IF alternate
       THEN (chl % 2) * 16384 + ((mode \div 2) % 2) * 256 + (mode % 2) * 8192
       ELSE (chl % 2) * 8192 + ((mode \div 2) % 2) * 16384 + (mode % 2) * 256)
    + (IF mode = EDGE
       THEN Bit(condition < 0) * 4096 + (sweep % 4) * 1024
       ELSE (condition % 8) * 32 + (sweep % 4) * 1024)

\* set_trigger: the trigger word trg, for mode EDGE, PULSE or SLOPE
\*   trg = (chl == EXT) & 1 | (alternate & 1) << 15
\*   alternate: trg |= (chl & 1) << 14 | (mode & 2) << 7 | (mode & 1) << 13
\*   single:    trg |= (chl & 1) << 13 | (mode & 2) << 13 | (mode & 1) << 8
\*   EDGE:      trg |= (condition < 0) << 12 | (not alternate and sweep & 3) << 10
\*   otherwise: trg |= (condition & 7) << 5 | (not alternate and sweep & 3) << 10
TriggerWord(chl, mode, condition, sweep, alternate) ==
    LET swp == IF alternate THEN 0 ELSE (sweep % 4) * 1024
    IN  Bit(chl = EXT) + Bit(alternate) * 32768
        + (IF alternate
           THEN (chl % 2) * 16384 + ((mode \div 2) % 2) * 256 + (mode % 2) * 8192
           ELSE (chl % 2) * 8192 + ((mode \div 2) % 2) * 16384 + (mode % 2) * 256)
        + (IF mode = EDGE
           THEN Bit(condition < 0) * 4096 + swp
           ELSE (condition % 8) * 32 + swp)

\* set_trigger(source, mode, condition, position, level, width, holdoff, sweep)
\* called by thread t; no lock is taken. position is in thousandths, level a
\* sequence of millivolts, width and holdoff are in units of 10 ns.
\* The asserts on the mode and the levels and the NotImplementedError come after
\* the first assignments and pushes.
set_trigger(t, a) ==
    LET chl  == a.source
        s0   == QState(queue, nid, latest)
        alternate == /\ chl # EXT
                     /\ queue # <<>>
                     /\ queue[Len(queue)].cmd = "SET_TRIGGER"
        multi == IF chl = EXT THEN MULTI_IN ELSE MULTI_OUT
        htp  == Round(SAMPLES * _clip(500 - a.position, -500, 500), 1000)
        s1   == PushSeq(s0, << <<"SET_MULTI", multi>>,
                               <<"SET_PRE_TRG", (ADC_SIZE \div 2) - htp - HTP_ERR>>,
                               <<"SET_SUF_TRG", (ADC_SIZE \div 2) + htp + HTP_ERR>> >>)
        c    == IF chl = EXT THEN 0 ELSE chl
        lvls == [i \in 1 .. Len(a.level) |-> TriggerLevel(a.level[i], c)]
        v    == lvls[1] + (IF a.condition < 0 THEN 10 ELSE 0)
        levelOk ==
            IF chl = EXT THEN a.mode = EDGE
            ELSE IF a.mode \in {EDGE, PULSE}
            THEN Len(lvls) = 1 /\ ADC_MIN + 10 <= v /\ v <= ADC_MAX
            ELSE IF a.mode = SLOPE
            THEN /\ Len(lvls) = 2
                 /\ ADC_MIN <= lvls[1] /\ lvls[1] <= ADC_MAX
                 /\ ADC_MIN <= lvls[2] /\ lvls[2] <= ADC_MAX
            ELSE TRUE
        s2   == IF chl = EXT THEN s1
                ELSE IF a.mode \in {EDGE, PULSE}
                THEN PushSeq(s1, << <<SET_EDGE_LEVEL[c + 1], _u16(v, v - 10)>>,
                                    <<SET_FREQREF[c + 1], _u8(v - 5)>> >>)
                ELSE IF a.mode = SLOPE
                THEN PushSeq(s1, << <<SET_SLOPE_THRED[c + 1],
                                      _u16(Max2(lvls[1], lvls[2]), Min2(lvls[1], lvls[2]))>>,
                                    <<SET_FREQREF[c + 1],
                                      _u8(FloorDiv(lvls[1] + lvls[2], 2))>> >>)
                ELSE s1
        me   == _iexp10(a.width, 1023)
        s3   == IF chl # EXT /\ a.mode \in {PULSE, SLOPE}
                THEN IF VFPGA < 3
                     THEN IF a.condition \in {RISE_EQU, FALL_EQU}
                          THEN PushSeq(s2, << <<SET_TRG_CDT_EQU_H[c + 1],
                                                ((me[1] * 105) \div 100) * 64 + (me[2] % 8)>>,
                                              <<SET_TRG_CDT_EQU_L[c + 1],
                                                (me[1] * 95) \div 100>> >>)
                          ELSE PushSeq(s2, << <<SET_TRG_CDT_GL[c + 1], me[1]>>,
                                              <<SET_TRG_CDT_EQU_H[c + 1], me[2]>> >>)
                     ELSE PushSeq(s2, << <<SET_TRG_CDT_GL[c + 1], a.width % 65536>>,
                                         <<SET_TRG_CDT_HL[c + 1], TruncDiv(a.width, 65536)>> >>)
                ELSE s2
        mh   == _iexp10(a.holdoff, 1023)
        s4   == Push1(s3, SET_TRG_HOLDOFF[(chl % CHANNELS) + 1],
                      _swap16(mh[1] * 64 + (mh[2] % 8)))
        trg  == TriggerWord(chl, a.mode, a.condition, a.sweep, alternate)
        s5   == Push1(s4, "SET_TRIGGER", trg)
        end  == IF ~levelOk THEN s1
                ELSE IF a.mode \notin {EDGE, PULSE, SLOPE} THEN s4
                ELSE s5
    IN  /\ pc[t] = "idle" /\ callsLeft[t] > 0
        /\ callsLeft' = Set(callsLeft, t, callsLeft[t] - 1)
        /\ a.source \in {CH1, CH2, EXT} /\ Len(a.level) >= 1
        /\ sweepmode' = a.sweep
        /\ trigger_position' = a.position
        /\ queue' = end.q /\ nid' = end.n /\ latest' = end.l
        /\ pc' = IF levelOk /\ a.mode \in {EDGE, PULSE, SLOPE}
                 THEN pc ELSE Set(pc, t, "rejected")
        /\ UNCHANGED <<handle, lock, stopFlag, failures, clockMoved, calibration,
                       on, probe, coupling, voltrange, voltoffset, rollmode, peakmode,
                       sampling_rate, op, sendvars, fetchvars, discarded, stopPending,
                       faultsLeft, plugged, tries, calvars>>

\* send(cmd, arg) is called: the caller blocks on the lock
send_call(a) ==
    /\ pc[Caller] = "idle" /\ callsLeft[Caller] > 0
    /\ callsLeft' = Set(callsLeft, Caller, callsLeft[Caller] - 1)
    /\ call' = Entry(a.cmd, a.arg, 0)
    /\ op' = Set(op, Caller, "send")
    /\ pc' = Set(pc, Caller, "send_acq")
    /\ UNCHANGED <<handle, lock, stopFlag, qvars, failures, clockMoved, calibration,
                   devstate, cur, ret, sret, fetchvars, discarded, stopPending, faultsLeft, plugged, tries, calvars>>

\* send: with self._lock: self._queue.pop(cmd, None); then the flush loop
send_acquire ==
    /\ pc[Caller] = "send_acq" /\ lock = NoThread
    /\ lock' = Caller
    /\ _submit(Caller, QueuePop(queue, call.cmd),
               [latest EXCEPT ![call.cmd] = None], "send_cmd")
    /\ UNCHANGED <<handle, stopFlag, failures, clockMoved, calibration, devstate,
                   op, call, fetchvars, nid, discarded, stopPending,
                   callsLeft, faultsLeft, plugged, tries, calvars>>

\* send: return self._send(cmd, arg)
send_cmd ==
    /\ pc[Caller] = "send_cmd"
    /\ cur' = Set(cur, Caller, call)
    /\ ret' = Set(ret, Caller, "send_ret")
    /\ pc' = Set(pc, Caller, "send_w")
    /\ UNCHANGED <<handle, lock, stopFlag, qvars, failures, clockMoved, calibration,
                   devstate, op, sret, call, fetchvars, discarded, stopPending,
                   callsLeft, faultsLeft, plugged, tries, calvars>>

\* send returns: the with-block releases the lock
send_ret ==
    /\ pc[Caller] = "send_ret"
    /\ lock' = NoThread
    /\ pc' = Set(pc, Caller, "idle")
    /\ UNCHANGED <<handle, stopFlag, qvars, failures, clockMoved, calibration,
                   devstate, op, sendvars, fetchvars, discarded, stopPending,
                   callsLeft, faultsLeft, plugged, tries, calvars>>

IteratorInFlight == pc[Consumer] \notin {"f_new", "f_done"}

\* stop() (new = FALSE) or VDS1022() on the connected singleton (new = TRUE,
\* __new__ calls self.stop()): if self._handle: self._stop.set()
stop_call(new) ==
    /\ pc[Caller] = "idle" /\ callsLeft[Caller] > 0
    /\ callsLeft' = Set(callsLeft, Caller, callsLeft[Caller] - 1)
    /\ handle
    /\ stopFlag' = TRUE
    /\ stopPending' = (stopPending \/ IteratorInFlight)
    /\ op' = Set(op, Caller, IF new THEN "new" ELSE "stop")
    /\ pc' = Set(pc, Caller, "stop_acq")
    /\ UNCHANGED <<handle, lock, qvars, failures, clockMoved, calibration, devstate,
                   sendvars, fetchvars, discarded, faultsLeft, plugged, tries, calvars>>

\* stop without self._queue.clear()
stop_acquire_noclear ==
    /\ pc[Caller] = "stop_acq" /\ lock = NoThread
    /\ lock' = Caller
    /\ discarded' = discarded \cup Ids(queue)
    /\ cur' = Set(cur, Caller, Entry("SET_RUNSTOP", 1, 0))
    /\ ret' = Set(ret, Caller, "stop_ok")
    /\ pc' = Set(pc, Caller, "send_w")
    /\ UNCHANGED <<handle, stopFlag, qvars, failures, tries, clockMoved, calibration,
                   devstate, op, sret, call, fetchvars, stopPending, callsLeft,
                   faultsLeft, plugged, calvars>>

\* stop: with self._lock: self._queue.clear(); self._send(CMD.SET_RUNSTOP, 1)
stop_acquire ==
    /\ pc[Caller] = "stop_acq" /\ lock = NoThread
    /\ lock' = Caller
    /\ queue' = <<>>
    /\ latest' = NoLatest
    /\ discarded' = discarded \cup Ids(queue)
    /\ cur' = Set(cur, Caller, Entry("SET_RUNSTOP", 1, 0))
    /\ ret' = Set(ret, Caller, "stop_ok")
    /\ pc' = Set(pc, Caller, "send_w")
    /\ UNCHANGED <<handle, stopFlag, failures, clockMoved, calibration, devstate,
                   op, sret, call, fetchvars, nid, stopPending, callsLeft, faultsLeft, plugged, tries, calvars>>

\* a __new__ that made a new object whatever stop() returned
stop_ok_always_new ==
    /\ pc[Caller] = "stop_ok"
    /\ stopFlag' = FALSE
    /\ lock' = NoThread
    /\ pc' = Set(pc, Caller, IF op[Caller] = "new" THEN "new_obj" ELSE "idle")
    /\ UNCHANGED <<handle, qvars, failures, clockMoved, calibration, devstate,
                   op, sendvars, fetchvars, discarded, stopPending, callsLeft, faultsLeft, plugged, tries, calvars>>

\* stop: self._stop.clear(); return True (the lock is released)
stop_ok ==
    /\ pc[Caller] = "stop_ok"
    /\ stopFlag' = FALSE
    /\ lock' = NoThread
    /\ pc' = Set(pc, Caller, IF op[Caller] = "new" THEN "new_init" ELSE "idle")
    /\ UNCHANGED <<handle, qvars, failures, clockMoved, calibration, devstate,
                   op, sendvars, fetchvars, discarded, stopPending, callsLeft, faultsLeft, plugged, tries, calvars>>

\* __init__ of the connected singleton: if self._handle: self._initialize()
new_init ==
    LET r == Initialized(nid, calibration)
    IN  /\ pc[Caller] = "new_init"
        /\ pc' = Set(pc, Caller, "idle")
        /\ IF handle
           THEN /\ stopFlag' = FALSE
                /\ queue' = r.s.q /\ nid' = r.s.n /\ latest' = r.s.l
                /\ on' = DefaultOn
                /\ probe' = DefaultProbe
                /\ coupling' = DefaultCoupling
                /\ voltrange' = DefaultVoltrange
                /\ voltoffset' = DefaultVoltoffset
                /\ rollmode' = r.rollmode
                /\ sweepmode' = None
                /\ peakmode' = r.peakmode
                /\ sampling_rate' = r.sampling_rate
                /\ trigger_position' = r.trigger_position
           ELSE UNCHANGED <<stopFlag, qvars, devstate>>
        /\ UNCHANGED <<handle, lock, failures, clockMoved, calibration, op, sendvars,
                       fetchvars, discarded, stopPending, callsLeft, faultsLeft, plugged, tries, calvars>>

\* VDS1022() when the handle of the singleton is not open: stop() returns
\* None at once and __new__ goes on to make a new object
new_call_released ==
    /\ pc[Caller] = "idle" /\ callsLeft[Caller] > 0
    /\ callsLeft' = Set(callsLeft, Caller, callsLeft[Caller] - 1)
    /\ ~handle
    /\ op' = Set(op, Caller, "new")
    /\ pc' = Set(pc, Caller, "new_obj")
    /\ UNCHANGED <<handle, lock, stopFlag, qvars, failures, clockMoved, calibration, devstate,
                   sendvars, fetchvars, discarded, stopPending, faultsLeft, plugged, tries, calvars>>

\* __new__: self = cls._instance = object.__new__(cls); self._handle = None,
\* then __init__ of the new object: its own lock, stop event and queue,
\* _connect, _load_flash, _load_calibration, _load_fpga, _initialize.  When
\* the device is not found _connect returns None and __init__ raises USBError.
new_object ==
    LET cal == IF store # NoStore THEN store ELSE FlashCalibration
        r   == Initialized(nid, cal)
    IN  /\ pc[Caller] = "new_obj"
        /\ pc' = Set(pc, Caller, "idle")
        /\ instance' = instance + 1
        /\ old_open' = old_open \cup (IF handle THEN {instance} ELSE {})
        /\ lock' = NoThread
        /\ stopFlag' = FALSE
        /\ failures' = 0
        /\ owed' = [t \in Threads |-> 0]
        /\ IF plugged
           THEN /\ handle' = TRUE
                /\ clockMoved' = TRUE
                /\ calibration' = cal
                /\ queue' = r.s.q /\ nid' = r.s.n /\ latest' = r.s.l
                /\ on' = DefaultOn
                /\ probe' = DefaultProbe
                /\ coupling' = DefaultCoupling
                /\ voltrange' = DefaultVoltrange
                /\ voltoffset' = DefaultVoltoffset
                /\ rollmode' = r.rollmode
                /\ sweepmode' = None
                /\ peakmode' = r.peakmode
                /\ sampling_rate' = r.sampling_rate
                /\ trigger_position' = r.trigger_position
           ELSE /\ handle' = FALSE
                /\ queue' = <<>> /\ latest' = NoLatest
                /\ UNCHANGED <<nid, clockMoved, calibration, devstate>>
        /\ UNCHANGED <<op, sendvars, fetchvars, discarded, stopPending, callsLeft,
                       faultsLeft, plugged, tries, unsettled, work, cstate, store,
                       before, auto, signal, riter, packet, polled>>
        /\ sent' = IF plugged THEN NoSent ELSE sent         \* _load_fpga

(***************************************************************************)
(* The keep-alive thread (run, in __init__).                               *)
(***************************************************************************)
\* while self._handle: clock = self._clock
ka_top ==
    /\ pc[KeepAlive] = "ka_top"
    /\ IF handle
       THEN /\ clockMoved' = FALSE
            /\ pc' = Set(pc, KeepAlive, "ka_wait")
       ELSE /\ pc' = Set(pc, KeepAlive, "ka_done")
            /\ UNCHANGED clockMoved
    /\ UNCHANGED <<handle, lock, stopFlag, qvars, failures, calibration, devstate,
                   op, sendvars, fetchvars, discarded, stopPending, callsLeft, faultsLeft, plugged, tries, calvars>>

\* if self._stop.wait(3): sleep / elif self._clock == clock: go and ping
ka_wait ==
    /\ pc[KeepAlive] = "ka_wait"
    /\ pc' = Set(pc, KeepAlive,
                 IF stopFlag THEN "ka_top"
                 ELSE IF ~clockMoved THEN "ka_acq" ELSE "ka_top")
    /\ UNCHANGED <<handle, lock, stopFlag, qvars, failures, clockMoved, calibration,
                   devstate, op, sendvars, fetchvars, discarded, stopPending,
                   callsLeft, faultsLeft, plugged, tries, calvars>>

\* the keep-alive command sent without taking the lock
ka_acquire_unlocked ==
    /\ pc[KeepAlive] = "ka_acq"
    /\ cur' = Set(cur, KeepAlive, Entry("SET_RUNSTOP", 1, 0))
    /\ ret' = Set(ret, KeepAlive, "ka_rel")
    /\ pc' = Set(pc, KeepAlive, "send_w")
    /\ UNCHANGED <<handle, lock, stopFlag, qvars, failures, tries, clockMoved,
                   calibration, devstate, op, sret, call, fetchvars, discarded,
                   stopPending, callsLeft, faultsLeft, plugged, calvars>>

\* with self._lock: self._send(CMD.SET_RUNSTOP, 1)
ka_acquire ==
    /\ pc[KeepAlive] = "ka_acq" /\ lock = NoThread
    /\ lock' = KeepAlive
    /\ cur' = Set(cur, KeepAlive, Entry("SET_RUNSTOP", 1, 0))
    /\ ret' = Set(ret, KeepAlive, "ka_rel")
    /\ pc' = Set(pc, KeepAlive, "send_w")
    /\ UNCHANGED <<handle, stopFlag, qvars, failures, clockMoved, calibration, devstate,
                   op, sret, call, fetchvars, discarded, stopPending, callsLeft, faultsLeft, plugged, tries, calvars>>

\* the with-block ends: the lock is released
ka_release ==
    /\ pc[KeepAlive] = "ka_rel"
    /\ lock' = NoThread
    /\ pc' = Set(pc, KeepAlive, "ka_top")
    /\ UNCHANGED <<handle, stopFlag, qvars, failures, clockMoved, calibration, devstate,
                   op, sendvars, fetchvars, discarded, stopPending, callsLeft, faultsLeft, plugged, tries, calvars>>

\* a dispose that releases the handle and leaves the queue as it is
ka_dispose_keeping ==
    /\ pc[KeepAlive] = "ka_dispose" /\ lock = NoThread
    /\ handle' = FALSE
    /\ pc' = Set(pc, KeepAlive, "ka_done")
    /\ UNCHANGED <<lock, stopFlag, failures, clockMoved, calibration, devstate,
                   op, sendvars, fetchvars, qvars, discarded, stopPending,
                   callsLeft, faultsLeft, plugged, tries, calvars>>

\* dispose(), after the stop flag was set: with self._lock: clear, _release()
ka_dispose ==
    /\ pc[KeepAlive] = "ka_dispose" /\ lock = NoThread
    /\ queue' = <<>>
    /\ latest' = NoLatest
    /\ handle' = FALSE
    /\ pc' = Set(pc, KeepAlive, "ka_done")
    /\ UNCHANGED <<lock, stopFlag, failures, clockMoved, calibration, devstate,
                   op, sendvars, fetchvars, nid, discarded, stopPending,
                   callsLeft, faultsLeft, plugged, tries, calvars>>

(***************************************************************************)
(* The consumer thread: fetch_iter(freq, autorange=False, autosense=False) *)
(* driven by Stream._run, and _pull_data inside it.                        *)
(***************************************************************************)
\* the enabled channels, in channel order
RECURSIVE ChannelsOn(_, _)
ChannelsOn(onv, chl) ==
    IF chl = CHANNELS THEN <<>>
    ELSE (IF onv[chl] THEN <<chl>> ELSE <<>>) \o ChannelsOn(onv, chl + 1)

\* a Frame whose Y scale left the probe ratio out
Frame_unscaled(chl) ==
    [channel |-> chl,
     sy |-> <<voltrange[chl], ADC_RANGE>>,
     sx |-> <<sampling_rate[2], sampling_rate[1]>>,
     ty |-> <<voltrange[chl], 0 - voltoffset[chl]>>]

\* Frame(device, chl, ...): the scale factors are read from Device State
\* sy = voltrange * probe / ADC_RANGE (mV), sx = 1 / sampling_rate,
\* ty = vr * -voltoffset, kept as its two factors (mV, millionths)
Frame(chl) ==
    [channel |-> chl,
     sy |-> <<voltrange[chl] * probe[chl], ADC_RANGE>>,
     sx |-> <<sampling_rate[2], sampling_rate[1]>>,
     ty |-> <<voltrange[chl] * probe[chl], 0 - voltoffset[chl]>>]

\* fetch_iter(freq, autorange): first next(): with self._lock:
\* if not any(self.on): self.on[CH1] = True; locals
fetch_start(autorange) ==
    /\ pc[Consumer] = "f_new" /\ lock = NoThread
    /\ op' = Set(op, Consumer, IF autorange THEN "fetch_iter_autorange" ELSE "fetch_iter")
    /\ on' = IF \E c \in Channels : on[c] THEN on ELSE [on EXCEPT ![CH1] = TRUE]
    /\ frames' = [c \in Channels |-> NoFrame]
    /\ pc' = Set(pc, Consumer, "f_loop")
    /\ UNCHANGED <<handle, lock, stopFlag, qvars, failures, clockMoved, calibration,
                   probe, coupling, voltrange, voltoffset, rollmode, sweepmode, peakmode,
                   sampling_rate, trigger_position, sendvars, pull, nsubmit,
                   discarded, stopPending, callsLeft, faultsLeft, plugged, tries, calvars>>

\* fetch_iter(autorange=..., autosense=True):
\* assert not (autosense and self.sweepmode); then as fetch_start
fetch_start_sense(autorange) ==
    /\ pc[Consumer] = "f_new" /\ lock = NoThread
    /\ op' = Set(op, Consumer, IF autorange THEN "fetch_iter_autoboth"
                                            ELSE "fetch_iter_autosense")
    /\ IF sweepmode \in {NORMAL, ONCE}
       THEN /\ pc' = Set(pc, Consumer, "f_done")           \* AssertionError
            /\ UNCHANGED <<on, frames>>
       ELSE /\ on' = IF \E c \in Channels : on[c] THEN on ELSE [on EXCEPT ![CH1] = TRUE]
            /\ frames' = [c \in Channels |-> NoFrame]
            /\ pc' = Set(pc, Consumer, "f_loop")
    /\ UNCHANGED <<handle, lock, stopFlag, qvars, failures, clockMoved, calibration,
                   probe, coupling, voltrange, voltoffset, rollmode, sweepmode, peakmode,
                   sampling_rate, trigger_position, sendvars, pull, nsubmit,
                   discarded, stopPending, callsLeft, faultsLeft, plugged, tries, calvars>>

\* while True: with self._lock: self._submit() ...
fetch_acquire ==
    /\ pc[Consumer] = "f_loop" /\ lock = NoThread
    /\ nid < MaxPushIds
    /\ lock' = Consumer
    /\ nsubmit' = Len(queue)
    /\ polled' = [polled EXCEPT !.since = nid]
    /\ _submit(Consumer, queue, latest, "f_wait")
    /\ UNCHANGED <<handle, stopFlag, nid, failures, clockMoved, calibration, devstate,
                   op, call, pull, frames, discarded, stopPending,
                   callsLeft, faultsLeft, plugged, tries, unpolled>>

\* the consumer calls self._send(cmd, arg) and continues at r with the reply
StartSend(e, r) ==
    /\ cur' = Set(cur, Consumer, e)
    /\ ret' = Set(ret, Consumer, r)
    /\ pc' = Set(pc, Consumer, "send_w")
    /\ UNCHANGED <<sret, call>>

\* _pull_data(self.on, buffer) starts
StartPull ==
    /\ pull' = [n |-> Len(ChannelsOn(on, 0)), i |-> 0, chls |-> ChannelsOn(on, 0), yielded |-> <<>>]
    /\ pc' = Set(pc, Consumer, IF Len(ChannelsOn(on, 0)) > 0 THEN "pull_w" ELSE "f_post")

\* if self._stop.wait(wait): return
\* if self.sweepmode: ... self._send(CMD.GET_DATAFINISHED, 0) ...   (NORMAL or ONCE)
\* else: points = self._pull_data(self.on, buffer)                  (None or AUTO)
fetch_wait ==
    /\ pc[Consumer] = "f_wait"
    /\ IF stopFlag
       THEN /\ lock' = NoThread
            /\ pc' = Set(pc, Consumer, "f_done")
            /\ stopPending' = FALSE
            /\ UNCHANGED <<pull, sendvars, polled>>
       ELSE /\ polled' = [polled EXCEPT !.mode = sweepmode, !.fin = None, !.trg = None]
            /\ IF sweepmode \in {NORMAL, ONCE}
               THEN /\ StartSend(Entry("GET_DATAFINISHED", 0, 0), "f_fin")
                    /\ UNCHANGED pull
               ELSE /\ StartPull
                    /\ UNCHANGED sendvars
            /\ UNCHANGED <<lock, stopPending>>
    /\ UNCHANGED <<handle, stopFlag, qvars, failures, clockMoved, calibration, devstate,
                   op, frames, nsubmit, discarded, callsLeft, faultsLeft, plugged, tries,
                   unpolled>>

\* a fetch_iter that pulls as soon as GET_DATAFINISHED is non-zero
fetch_finished_only ==
    /\ pc[Consumer] = "f_fin"
    /\ \E v \in 0 .. 1 :
          /\ polled' = [polled EXCEPT !.fin = v]
          /\ IF v = 0
             THEN /\ pc' = Set(pc, Consumer, "f_wait")
                  /\ UNCHANGED pull
             ELSE StartPull
    /\ UNCHANGED <<handle, lock, stopFlag, qvars, failures, clockMoved, calibration, devstate,
                   op, sendvars, frames, nsubmit, discarded, stopPending, callsLeft,
                   faultsLeft, plugged, tries, unpolled>>

\* if not self._send(CMD.GET_DATAFINISHED, 0) ...: wait = 0.06; continue
\* the reply of the device is 0 while the acquisition is running
fetch_finished ==
    /\ pc[Consumer] = "f_fin"
    /\ \E v \in 0 .. 1 :
          /\ polled' = [polled EXCEPT !.fin = v]
          /\ IF v = 0
             THEN /\ pc' = Set(pc, Consumer, "f_wait")
                  /\ UNCHANGED sendvars
             ELSE StartSend(Entry("GET_TRIGGERED", 0, 0), "f_trg")
    /\ UNCHANGED <<handle, lock, stopFlag, qvars, failures, clockMoved, calibration, devstate,
                   op, pull, frames, nsubmit, discarded, stopPending, callsLeft, faultsLeft,
                   plugged, tries, unpolled>>

\* ... or not self._send(CMD.GET_TRIGGERED, 0): wait = 0.06; continue
\* points = self._pull_data(self.on, buffer)
fetch_triggered ==
    /\ pc[Consumer] = "f_trg"
    /\ \E v \in 0 .. 1 :
          /\ polled' = [polled EXCEPT !.trg = v]
          /\ IF v = 0
             THEN /\ pc' = Set(pc, Consumer, "f_wait")
                  /\ UNCHANGED pull
             ELSE StartPull
    /\ UNCHANGED <<handle, lock, stopFlag, qvars, failures, clockMoved, calibration, devstate,
                   op, sendvars, frames, nsubmit, discarded, stopPending, callsLeft,
                   faultsLeft, plugged, tries, unpolled>>

\* where thread t continues when its loop over _pull_data has ended
AfterPull(t) ==
    CASE op[t] = "calibrate" -> "c_round"
      [] op[t] = "autoset"   -> "a_loop"
      [] OTHER               -> "f_post"

\* the error of the frame the device returns for chl during calibrate:
\* ERR_FAR at the point where its zero does not settle; at the point
\* <<ical, vb, chl, slope>> of a synthetic device the mean is
\* target + f(correction) with f(c) = slope * (zero - c), the zero of f being
\* ZERO_SHIFT above the value of the flash table; 0 elsewhere
Err(chl) ==
    IF unsettled = <<cstate.ical, cstate.vb, chl>> THEN ERR_FAR
    ELSE IF unsettled # NoPoint /\ Len(unsettled) = 4
            /\ SubSeq(unsettled, 1, 3) = <<cstate.ical, cstate.vb, chl>>
    THEN unsettled[4] * (Clipped(FlashCalibration)[cstate.ical][chl][cstate.vb + 1] + ZERO_SHIFT
                           - work[cstate.ical][chl][cstate.vb + 1])
    ELSE 0

\* _pull_data: self._bulk_write(CMD.GET_DATA.pack(arg)); i = 0
pull_write(t) ==
    /\ pc[t] = "pull_w"
    /\ \/ /\ handle /\ plugged
          /\ clockMoved' = TRUE
          /\ pull' = [pull EXCEPT !.i = 0]
          /\ pc' = Set(pc, t, "pull_r")
          /\ owed' = Set(owed, t, pull.n)
          /\ UNCHANGED <<handle, lock, stopFlag, failures, tries, faultsLeft>>
       \/ /\ handle /\ (faultsLeft > 0 \/ ~plugged)     \* USBError
          /\ faultsLeft' = IF plugged THEN faultsLeft - 1 ELSE faultsLeft
          /\ OnUsbErr(t, "pull_w")
          /\ UNCHANGED <<clockMoved, pull, owed>>
       \/ /\ ~handle
          /\ Raised(t, FALSE)
          /\ UNCHANGED <<failures, faultsLeft, clockMoved, pull, owed>>
    /\ UNCHANGED <<qvars, calibration, devstate, op, sendvars, frames, nsubmit,
                   discarded, stopPending, callsLeft, plugged, hostvars>>

\* the signals of the auto-ranging session: the peak amplitude at each probe
\* in millivolts, and what the frequency meter reports: time_sum (in millions
\* of clock ticks) and period_num
Signals ==
    { [ampl |-> <<a, b>>, time_sum |-> 1, period_num |-> 10] :
        a \in {2, 700, 5000, 30000}, b \in {700, 30000} }

\* the frame the device returns for channel chl once it has applied the
\* channel's settings: the signal in ADC counts around the offset position,
\* within the int8 range of the points
DeviceFrame(chl) ==
    LET offset == Round(voltoffset[chl], 1000000 \div ADC_RANGE)
        counts == Round(signal.ampl[chl + 1] * ADC_RANGE, voltrange[chl] * probe[chl])
    IN  [pt_min |-> _clip(offset - counts, -128, 127),
         pt_max |-> _clip(offset + counts, -128, 127),
         time_sum |-> signal.time_sum,
         period_num |-> signal.period_num]

\* an auto-range without the test of the band: it adjusts whenever the index
\* changes or the amplitude is 30 or more
_adjust_range_always(chl, pt_min, pt_max) ==
    LET vb     == VoltIndex(voltrange[chl])
        offset == Round(voltoffset[chl], 1000000 \div ADC_RANGE)
        lo     == IF pt_min > ADC_MIN THEN _min(offset, pt_min) ELSE 4 * pt_min
        hi     == IF pt_max < ADC_MAX THEN _max(offset, pt_max) ELSE 4 * pt_max
        amp    == Abs(hi - lo)
        vb_new == 1 + _find_ge([i \in 1 .. Len(VOLT_RANGES) |-> 10 * ADC_RANGE * VOLT_RANGES[i]],
                               12 * amp * VOLT_RANGES[vb])
        adjust == vb # vb_new \/ amp >= 30
        raised == adjust /\ vb_new > Len(VOLT_RANGES)
        vrn    == VOLT_RANGES[_min(vb_new, Len(VOLT_RANGES))]
        scaled == IF VOLT_RANGES[vb] >= 10 * vrn THEN 20000
                  ELSE (2000 * VOLT_RANGES[vb]) \div vrn
    IN  [adjust |-> adjust /\ ~raised,
         raised |-> raised,
         amp |-> amp,
         voltoffset |-> _clip(0 - (hi + lo - 2 * offset) * scaled, -400000, 400000),
         voltrange |-> vrn]

\* _adjust_range(chl, pt_min, pt_max): the new voltrange and voltoffset of
\* the channel; adjust is the value returned (True, or None); raised is the
\* IndexError of VOLT_RANGES[vb_new], before any assignment.  voltoffset is
\* -mid / ADC_RANGE with mid = (hi - offset + lo - offset) / 2 * _min(scale, 10)
_adjust_range(chl, pt_min, pt_max) ==
    LET vb     == VoltIndex(voltrange[chl])
        offset == Round(voltoffset[chl], 1000000 \div ADC_RANGE)
        lo     == IF pt_min > ADC_MIN THEN _min(offset, pt_min) ELSE 4 * pt_min
        hi     == IF pt_max < ADC_MAX THEN _max(offset, pt_max) ELSE 4 * pt_max
        amp    == Abs(hi - lo)
        \* vr = amp * 1.2 * VOLT_RANGES[vb] / ADC_RANGE, both sides times 10 * ADC_RANGE
        vb_new == 1 + _find_ge([i \in 1 .. Len(VOLT_RANGES) |-> 10 * ADC_RANGE * VOLT_RANGES[i]],
                               12 * amp * VOLT_RANGES[vb])
        adjust == (amp < 30 \/ amp >= ADC_RANGE) /\ (vb # vb_new \/ amp >= 30)
        raised == adjust /\ vb_new > Len(VOLT_RANGES)
        vrn    == VOLT_RANGES[_min(vb_new, Len(VOLT_RANGES))]
        \* 1000000 / (2 * ADC_RANGE) * _min(scale, 10)
        scaled == IF VOLT_RANGES[vb] >= 10 * vrn THEN 20000
                  ELSE (2000 * VOLT_RANGES[vb]) \div vrn
    IN  [adjust |-> adjust /\ ~raised,
         raised |-> raised,
         amp |-> amp,
         voltoffset |-> _clip(0 - (hi + lo - 2 * offset) * scaled, -400000, 400000),
         voltrange |-> vrn]

\* SAMPLING_RATES, every rate doubled (2.5 S/s is 5)
SAMPLING_RATES ==
    << 5, 10, 25, 50, 100, 250, 500, 1000,
       2500, 5000, 10000, 25000, 50000, 100000, 250000, 500000, 1000000,
       2500000, 5000000, 10000000, 25000000, 50000000, 100000000, 200000000 >>

\* SAMPLING_RATES[_find_le(SAMPLING_RATES, SAMPLES / (period * 3))], doubled, with
\* period = time_sum / period_num / SAMPLING_RATES[-1]: the entries counted are
\* those with rate <= SAMPLES * period_num * top rate / (3 * time_sum); the
\* index -1 of an empty count is the last entry
RateForPeriod(time_sum, period_num) ==
    LET n == Cardinality({ i \in 1 .. Len(SAMPLING_RATES) :
                             SAMPLING_RATES[i] * 3 * time_sum
                                <= 2 * (SAMPLES \div 50) * period_num * (TOP_RATE \div 20000) })
    IN  SAMPLING_RATES[IF n = 0 THEN Len(SAMPLING_RATES) ELSE n]

\* rate (doubled) equals self.sampling_rate = top rate / prescaler
SameAsSamplingRate(rate2) ==
    /\ (2 * TOP_RATE) % rate2 = 0
    /\ sampling_rate = <<TOP_RATE, (2 * TOP_RATE) \div rate2>>

\* a loop over _pull_data that tested the stop flag between two frames
AfterFrame_stopping(t, next) ==
    /\ tries' = Set(tries, t, 0)
    /\ pc' = Set(pc, t, IF stopFlag THEN AfterPull(t) ELSE next)
    /\ UNCHANGED <<handle, lock, stopFlag>>

\* the thread runs on after a frame, to where next says
AfterFrame(t, next) ==
    /\ tries' = Set(tries, t, 0)
    /\ pc' = Set(pc, t, next)
    /\ UNCHANGED <<handle, lock, stopFlag>>

\* autoset on the frame f of channel chl: the body of its for loop
autoset_frame(t, chl, f, next) ==
    LET vb      == VoltIndex(voltrange[chl])
        offset  == Round(voltoffset[chl], 1000000 \div ADC_RANGE)
        lo      == _min(offset, f.pt_min)
        hi      == _max(offset, f.pt_max)
        amp     == 2 * _max(Abs(lo), Abs(hi))
        clipped == hi >= ADC_MAX \/ lo <= ADC_MIN
        \* vb and vb_new count from 1: (vb + len(VOLT_RANGES)) >> 1 counts from 0
        vb_new  == IF clipped THEN 1 + ((vb - 1 + Len(VOLT_RANGES)) \div 2)
                   ELSE 1 + _find_ge([i \in 1 .. Len(VOLT_RANGES) |->
                                          10 * ADC_RANGE * VOLT_RANGES[i]],
                                     11 * amp * VOLT_RANGES[vb])
        vrn     == VOLT_RANGES[_min(vb_new, Len(VOLT_RANGES))]
        level   == _clip(Round((hi + lo) * VOLT_RANGES[vb], 2 * vrn), -100, 100)
        s0      == QState(queue, nid, latest)
        s1      == IF clipped THEN s0
                   ELSE PushSeq(s0, << <<SET_EDGE_LEVEL[chl + 1], _u16(level + 10, level)>>,
                                       <<SET_FREQREF[chl + 1], _u8(level)>> >>)
        vr      == [voltrange EXCEPT ![chl] = vrn]
        s2      == IF vb_new = vb THEN s1
                   ELSE PushChannel(s1, chl, calibration, on, coupling, vr, voltoffset)
        hits1   == IF vb_new = vb THEN auto.hits + 1 ELSE 0
        rate_new == RateForPeriod(f.time_sum, f.period_num)
        faster  == /\ f.period_num > 1 /\ amp > 20
                   /\ ~SameAsSamplingRate(rate_new) /\ rate_new < auto.rate
        r       == PushSampling(s2, [sampling_rate |-> sampling_rate, rollmode |-> rollmode,
                                     peakmode |-> peakmode,
                                     trigger_position |-> trigger_position],
                                <<rate_new, 2>>, 0, None)
        s3      == IF faster THEN r.s ELSE s2
    IN  IF ~clipped /\ amp < 16
        THEN /\ on' = [on EXCEPT ![chl] = FALSE]
             /\ AfterFrame(t, next)
             /\ UNCHANGED <<qvars, voltrange, voltoffset, rollmode, peakmode,
                            sampling_rate, auto>>
        ELSE IF vb_new > Len(VOLT_RANGES)       \* IndexError of VOLT_RANGES[vb_new]
        THEN /\ Raised(t, FALSE)
             /\ UNCHANGED <<qvars, on, voltrange, voltoffset, rollmode, peakmode,
                            sampling_rate, auto>>
        ELSE /\ AfterFrame(t, next)
             /\ voltrange' = vr
             /\ queue' = s3.q /\ nid' = s3.n /\ latest' = s3.l
             /\ sampling_rate' = IF faster THEN r.sampling_rate ELSE sampling_rate
             /\ rollmode' = IF faster THEN r.rollmode ELSE rollmode
             /\ peakmode' = IF faster THEN r.peakmode ELSE peakmode
             /\ auto' = [auto EXCEPT !.hits = IF faster THEN 0 ELSE hits1,
                                     !.rate = IF faster THEN rate_new ELSE auto.rate]
             /\ UNCHANGED <<on, voltoffset>>

\* an auto-range that stores the range it asks for, vr, instead of the entry
\* of VOLT_RANGES at or above it, and queues nothing
fetch_frame_autorange_asked(t, chl, f, next) ==
    LET r  == _adjust_range(chl, f.pt_min, f.pt_max)
        vr == Round(12 * r.amp * voltrange[chl], 10 * ADC_RANGE)
    IN  /\ AfterFrame(t, next)
        /\ IF r.raised \/ r.adjust
           THEN /\ voltrange' = [voltrange EXCEPT ![chl] = vr]
                /\ UNCHANGED <<qvars, voltoffset, frames>>
           ELSE /\ frames' = [frames EXCEPT ![chl] = Frame(chl)]
                /\ UNCHANGED <<qvars, voltrange, voltoffset>>

\* fetch_iter with autorange on the frame f of channel chl:
\* if self._adjust_range(chl, pt_min, pt_max): continue; else the frame is decoded
fetch_frame_autorange(t, chl, f, next) ==
    \E r \in {_adjust_range(chl, f.pt_min, f.pt_max)} :
        IF r.raised
        THEN /\ Raised(t, FALSE)
             /\ UNCHANGED <<qvars, voltrange, voltoffset, frames>>
        ELSE IF r.adjust
        THEN \E s1 \in {PushChannel(QState(queue, nid, latest), chl, calibration, on, coupling,
                                     [voltrange EXCEPT ![chl] = r.voltrange],
                                     [voltoffset EXCEPT ![chl] = r.voltoffset])} :
                /\ AfterFrame(t, next)
                /\ voltrange' = [voltrange EXCEPT ![chl] = r.voltrange]
                /\ voltoffset' = [voltoffset EXCEPT ![chl] = r.voltoffset]
                /\ queue' = s1.q /\ nid' = s1.n /\ latest' = s1.l
                /\ UNCHANGED frames
        ELSE /\ AfterFrame(t, next)
             /\ frames' = [frames EXCEPT ![chl] = Frame(chl)]
             /\ UNCHANGED <<qvars, voltrange, voltoffset>>

\* the pushes of the sense feedback: _push(cmd, arg) for each pair; the entries
\* take the number of the last push instead of a new one, so that a cycle of
\* fetch_iter that repeats itself is a state that repeats itself
RECURSIVE PushSense(_, _)
PushSense(s, pairs) ==
    IF pairs = <<>> THEN s
    ELSE PushSense(QState(_push(s.q, pairs[1][1], pairs[1][2], s.n), s.n,
                          [s.l EXCEPT ![pairs[1][1]] = pairs[1][2]]), Tail(pairs))

\* _adjust_sense(chl, pt_min, pt_max): the value of mid
SenseLevel(chl, pt_min, pt_max) ==
    LET offset == Round(voltoffset[chl], 1000000 \div ADC_RANGE)
        lo     == _min(offset, pt_min)
        hi     == _max(offset, pt_max)
    IN  _clip((lo + hi) \div 2, -100, 100)

\* fetch_iter with autosense on the frame f of channel chl:
\* if autorange: if self._adjust_range(chl, pt_min, pt_max): continue
\* self._adjust_sense(chl, pt_min, pt_max); then the frame is decoded
fetch_frame_autosense(t, chl, f, next) ==
    \E r \in {_adjust_range(chl, f.pt_min, f.pt_max)} :
        IF op[t] = "fetch_iter_autoboth" /\ r.raised
        THEN /\ Raised(t, FALSE)
             /\ UNCHANGED <<qvars, voltrange, voltoffset, frames>>
        ELSE IF op[t] = "fetch_iter_autoboth" /\ r.adjust
        THEN \E s1 \in {PushChannel(QState(queue, nid, latest), chl, calibration, on, coupling,
                                     [voltrange EXCEPT ![chl] = r.voltrange],
                                     [voltoffset EXCEPT ![chl] = r.voltoffset])} :
                /\ AfterFrame(t, next)
                /\ voltrange' = [voltrange EXCEPT ![chl] = r.voltrange]
                /\ voltoffset' = [voltoffset EXCEPT ![chl] = r.voltoffset]
                /\ queue' = s1.q /\ nid' = s1.n /\ latest' = s1.l
                /\ UNCHANGED frames
        ELSE \E mid \in {SenseLevel(chl, f.pt_min, f.pt_max)} :
             \E s2 \in {PushSense(QState(queue, nid, latest),
                                   << <<SET_EDGE_LEVEL[chl + 1], _u16(mid + 10, mid)>>,
                                      <<SET_FREQREF[chl + 1], _u8(mid)>> >>)} :
                /\ AfterFrame(t, next)
                /\ queue' = s2.q /\ nid' = s2.n /\ latest' = s2.l
                /\ frames' = [frames EXCEPT ![chl] = Frame(chl)]
                /\ UNCHANGED <<voltrange, voltoffset>>

\* _pull_data: ret = self._bulk_read(buffer): a busy reply (5 bytes, first read
\* only), or the frame of the next enabled channel, which the caller of
\* _pull_data handles: fetch_iter decodes it (after _adjust_range when autorange
\* is set), _calibrate corrects the table, autoset picks the range
pull_read(t) ==
    /\ pc[t] = "pull_r"
    /\ \/ /\ handle /\ plugged /\ pull.i = 0                  \* EBUSY
          /\ failures' = 0
          /\ owed' = Set(owed, t, 0)
          /\ tries' = Set(tries, t, 0)
          /\ pc' = Set(pc, t, "pull_busy")
          /\ UNCHANGED <<handle, lock, stopFlag, faultsLeft, pull, frames, work, cstate,
                         qvars, devstate, auto>>
       \/ /\ handle /\ plugged                     \* FRAME_SIZE bytes
          /\ failures' = 0
          /\ owed' = Set(owed, t, owed[t] - 1)
          /\ pull' = [pull EXCEPT !.i = pull.i + 1,
                                  !.yielded = Append(@, pull.chls[pull.i + 1])]
          /\ LET chl  == pull.chls[pull.i + 1]
                 next == IF pull.i + 1 < pull.n THEN "pull_r" ELSE AfterPull(t)
             IN  CASE op[t] = "calibrate" ->
                        LET r == CalFrame(cstate, work, chl, Err(chl))
                        IN  /\ cstate' = r.cs
                            /\ work' = r.w
                            /\ AfterFrame(t, next)
                            /\ UNCHANGED <<frames, qvars, devstate, auto>>
                   [] op[t] = "autoset" ->
                        /\ autoset_frame(t, chl, DeviceFrame(chl), next)
                        /\ UNCHANGED <<frames, work, cstate, probe, coupling, sweepmode,
                                       trigger_position>>
                   [] op[t] = "fetch_iter_autorange" ->
                        /\ fetch_frame_autorange(t, chl, DeviceFrame(chl), next)
                        /\ UNCHANGED <<work, cstate, auto, on, probe, coupling, rollmode,
                                       sweepmode, peakmode, sampling_rate, trigger_position>>
                   [] op[t] \in {"fetch_iter_autosense", "fetch_iter_autoboth"} ->
                        /\ fetch_frame_autosense(t, chl, DeviceFrame(chl), next)
                        /\ UNCHANGED <<work, cstate, auto, on, probe, coupling, rollmode,
                                       sweepmode, peakmode, sampling_rate, trigger_position>>
                   [] OTHER ->
                        /\ frames' = [frames EXCEPT ![chl] = Frame(chl)]
                        /\ AfterFrame(t, next)
                        /\ UNCHANGED <<work, cstate, qvars, devstate, auto>>
          /\ UNCHANGED faultsLeft
       \/ /\ handle /\ (faultsLeft > 0 \/ ~plugged)     \* USBError
          /\ faultsLeft' = IF plugged THEN faultsLeft - 1 ELSE faultsLeft
          /\ OnUsbErr(t, "pull_w")
          /\ UNCHANGED <<pull, frames, work, cstate, qvars, devstate, auto, owed>>
       \/ /\ ~handle
          /\ Raised(t, FALSE)
          /\ UNCHANGED <<failures, faultsLeft, pull, frames, work, cstate, qvars,
                         devstate, auto, owed>>
    /\ UNCHANGED <<clockMoved, calibration, op, sendvars, nsubmit,
                   discarded, stopPending, callsLeft, plugged, unsettled, store, before, signal, riter, objvars>>

\* _pull_data after a busy reply: if self._stop.wait(wait): return; else ask again
pull_busy(t) ==
    /\ pc[t] = "pull_busy"
    /\ pc' = Set(pc, t, IF stopFlag THEN AfterPull(t) ELSE "pull_w")
    /\ UNCHANGED <<handle, lock, stopFlag, qvars, failures, clockMoved, calibration,
                   devstate, op, sendvars, fetchvars, discarded, stopPending,
                   callsLeft, faultsLeft, plugged, tries, calvars>>

\* after the for loop: if self._submit() > 2: ...
fetch_post ==
    /\ pc[Consumer] = "f_post"
    /\ nsubmit' = Len(queue)
    /\ polled' = [polled EXCEPT !.since = nid]
    /\ _submit(Consumer, queue, latest, "f_end")
    /\ UNCHANGED <<handle, lock, stopFlag, nid, failures, clockMoved, calibration,
                   devstate, op, call, pull, frames, discarded, stopPending,
                   callsLeft, faultsLeft, plugged, tries, unpolled>>

\* ... wait = 0.2; continue / else break: the lock is released, Frames is yielded
fetch_end ==
    /\ pc[Consumer] = "f_end"
    /\ IF nsubmit > 2
       THEN /\ pc' = Set(pc, Consumer, "f_wait")
            /\ UNCHANGED lock
       ELSE /\ pc' = Set(pc, Consumer, "f_yield")
            /\ lock' = NoThread
    /\ UNCHANGED <<handle, stopFlag, qvars, failures, clockMoved, calibration, devstate,
                   op, sendvars, fetchvars, discarded, stopPending, callsLeft, faultsLeft, plugged, tries, calvars>>

\* the consumer takes the yielded Frames and calls next() again
fetch_next ==
    /\ pc[Consumer] = "f_yield"
    /\ pc' = Set(pc, Consumer, "f_loop")
    /\ UNCHANGED <<handle, lock, stopFlag, qvars, failures, clockMoved, calibration,
                   devstate, op, sendvars, fetchvars, discarded, stopPending,
                   callsLeft, faultsLeft, plugged, tries, calvars>>

(***************************************************************************)
(* calibrate(), called by the worker thread.                               *)
(***************************************************************************)
CalIdle == {"idle", "c_done", "c_false", "c_noconv", "c_raised", "a_done"}
AnyOn(onv) == \E chl \in Channels : onv[chl]

\* calibrate() is called: the thread blocks on the lock
calibrate_call ==
    /\ pc[Worker] \in CalIdle /\ callsLeft[Worker] > 0
    /\ callsLeft' = Set(callsLeft, Worker, callsLeft[Worker] - 1)
    /\ op' = Set(op, Worker, "calibrate")
    /\ pc' = Set(pc, Worker, "c_acq")
    /\ before' = [calibration |-> calibration, store |-> store]
    /\ UNCHANGED <<handle, lock, stopFlag, qvars, failures, tries, clockMoved, calibration,
                   devstate, sendvars, fetchvars, discarded, stopPending, faultsLeft,
                   plugged, unsettled, work, cstate, store, auto, signal, riter, objvars, owed>>

\* with self._lock: self._initialize(); the clipped deepcopy; the first
\* _calibrate(points, calibration, COMP, 9, 0, 0) up to its first _submit
calibrate_acquire ==
    LET r  == Initialized(nid, calibration)
        w  == Clipped(calibration)
        vb == Len(VOLT_RANGES) - 1
        s1 == PushRound(PushStepChannels(r.s, vb, 0), w, COMP, vb, 0)
    IN  /\ pc[Worker] = "c_acq" /\ lock = NoThread
        /\ lock' = Worker
        /\ stopFlag' = FALSE
        /\ on' = DefaultOn
        /\ probe' = DefaultProbe
        /\ coupling' = DefaultCoupling
        /\ voltrange' = DefaultVoltrange
        /\ voltoffset' = DefaultVoltoffset
        /\ rollmode' = r.rollmode
        /\ sweepmode' = None
        /\ peakmode' = r.peakmode
        /\ sampling_rate' = r.sampling_rate
        /\ trigger_position' = r.trigger_position
        /\ work' = w
        /\ cstate' = StartStep(COMP, vb)
        /\ nid' = s1.n
        /\ _submit(Worker, s1.q, s1.l, "c_wait")
        /\ UNCHANGED <<handle, failures, tries, clockMoved, calibration, op, call,
                       fetchvars, discarded, stopPending, callsLeft, faultsLeft, plugged,
                       unsettled, store, before, auto, signal, riter, objvars, owed>>

\* calibrate that keeps what it has when it is stopped
calibrate_wait_saves ==
    /\ pc[Worker] = "c_wait"
    /\ IF stopFlag
       THEN /\ lock' = NoThread
            /\ pc' = Set(pc, Worker, "c_false")
            /\ calibration' = work
            /\ store' = work
            /\ UNCHANGED pull
       ELSE /\ pull' = [n |-> Len(ChannelsOn(cstate.on, 0)), i |-> 0,
                        chls |-> ChannelsOn(cstate.on, 0),
                        yielded |-> <<>>]
            /\ pc' = Set(pc, Worker, "pull_w")
            /\ UNCHANGED <<lock, calibration, store>>
    /\ UNCHANGED <<handle, stopFlag, qvars, failures, tries, clockMoved, devstate, op,
                   sendvars, frames, nsubmit, discarded, stopPending, callsLeft,
                   faultsLeft, plugged, unsettled, work, cstate, before, auto, signal, riter, objvars, owed>>

\* _calibrate: if self._stop.wait(0.25): return False (and calibrate returns
\* False); else the loop over _pull_data(on, self._buffer) starts
calibrate_wait ==
    /\ pc[Worker] = "c_wait"
    /\ IF stopFlag
       THEN /\ lock' = NoThread
            /\ pc' = Set(pc, Worker, "c_false")
            /\ UNCHANGED pull
       ELSE /\ pull' = [n |-> Len(ChannelsOn(cstate.on, 0)), i |-> 0,
                        chls |-> ChannelsOn(cstate.on, 0),
                        yielded |-> <<>>]
            /\ pc' = Set(pc, Worker, "pull_w")
            /\ UNCHANGED lock
    /\ UNCHANGED <<handle, stopFlag, qvars, failures, tries, clockMoved, calibration,
                   devstate, op, sendvars, frames, nsubmit, discarded, stopPending,
                   callsLeft, faultsLeft, plugged, calvars>>

\* _calibrate after the loop over _pull_data: the step is done when no channel
\* is on, the tenth round raises, another round starts otherwise; calibrate
\* goes on with the next step, or commits after the last one:
\* self.calibration = calibration; _save_calibration(); _initialize(); _submit()
calibrate_round ==
    LET nx == NextStep(cstate.ical, cstate.vb)
        s0 == QState(queue, nid, latest)
        sn == PushRound(PushStepChannels(s0, nx[2], 0), work, nx[1], nx[2], 0)
        sr == PushRound(s0, work, cstate.ical, cstate.vb, 0)
        r  == Initialized(nid, work)
    IN  /\ pc[Worker] = "c_round"
        /\ IF ~AnyOn(cstate.on) /\ nx # NoPoint
           THEN /\ cstate' = StartStep(nx[1], nx[2])
                /\ nid' = sn.n
                /\ _submit(Worker, sn.q, sn.l, "c_wait")
                /\ UNCHANGED <<lock, stopFlag, calibration, store, devstate>>
           ELSE IF ~AnyOn(cstate.on)
           THEN /\ calibration' = work
                /\ store' = work
                /\ cstate' = [cstate EXCEPT !.phase = "commit"]
                /\ stopFlag' = FALSE
                /\ on' = DefaultOn
                /\ probe' = DefaultProbe
                /\ coupling' = DefaultCoupling
                /\ voltrange' = DefaultVoltrange
                /\ voltoffset' = DefaultVoltoffset
                /\ rollmode' = r.rollmode
                /\ sweepmode' = None
                /\ peakmode' = r.peakmode
                /\ sampling_rate' = r.sampling_rate
                /\ trigger_position' = r.trigger_position
                /\ nid' = r.s.n
                /\ _submit(Worker, r.s.q, r.s.l, "c_end")
                /\ UNCHANGED lock
           ELSE IF cstate.i = ROUNDS - 1
           THEN /\ lock' = NoThread          \* raise Exception("Failed to calibrate ...")
                /\ pc' = Set(pc, Worker, "c_noconv")
                /\ UNCHANGED <<stopFlag, calibration, store, devstate, cstate, qvars,
                               cur, ret, sret>>
           ELSE /\ cstate' = [cstate EXCEPT !.i = cstate.i + 1]
                /\ nid' = sr.n
                /\ _submit(Worker, sr.q, sr.l, "c_wait")
                /\ UNCHANGED <<lock, stopFlag, calibration, store, devstate>>
        /\ UNCHANGED <<handle, failures, tries, clockMoved, op, call, fetchvars,
                       discarded, stopPending, callsLeft, faultsLeft, plugged,
                       unsettled, work, before, auto, signal, riter, objvars, owed>>

\* calibrate returns: the with-block releases the lock
calibrate_end ==
    /\ pc[Worker] = "c_end"
    /\ lock' = NoThread
    /\ pc' = Set(pc, Worker, "c_done")
    /\ UNCHANGED <<handle, stopFlag, qvars, failures, tries, clockMoved, calibration,
                   devstate, op, sendvars, fetchvars, discarded, stopPending, callsLeft,
                   faultsLeft, plugged, calvars>>

(***************************************************************************)
(* autoset(), called by the worker thread.                                 *)
(***************************************************************************)
RECURSIVE AutosetChannels(_, _, _)
\* for chl in range(CHANNELS): self.voltoffset[chl] = 0; pushes; _push_channel(chl)
AutosetChannels(s, chl, vo) ==
    IF chl = CHANNELS THEN s
    ELSE LET vo1 == [c \in Channels |-> IF c <= chl THEN 0 ELSE vo[c]]
         IN  AutosetChannels(
                PushChannel(
                    PushSeq(s, << <<SET_TRG_HOLDOFF[chl + 1], 32770>>,      \* 0x8002
                                  <<SET_EDGE_LEVEL[chl + 1], _u16(20, 10)>>,
                                  <<SET_FREQREF[chl + 1], _u8(12)>> >>),
                    chl, calibration, [c \in Channels |-> TRUE], coupling, voltrange, vo1),
                chl + 1, vo)

\* autoset(): with self._lock: the locals, the assignments and the pushes
\* before the loop
autoset_acquire ==
    LET r  == PushSampling(QState(queue, nid, latest),
                           [sampling_rate |-> sampling_rate, rollmode |-> rollmode,
                            peakmode |-> peakmode, trigger_position |-> 500],
                           <<25000, 1>>, 0, 0)
        s1 == PushSeq(r.s, << <<"SET_PEAKMODE", 1>>,
                              <<"SET_MULTI", 0>>,
                              <<"SET_PRE_TRG", (ADC_SIZE \div 2) - HTP_ERR>>,
                              <<"SET_SUF_TRG", (ADC_SIZE \div 2) + HTP_ERR>>,
                              <<"SET_TRIGGER", 49152>> >>)                   \* 0xc000
        s2 == AutosetChannels(s1, 0, voltoffset)
    IN  /\ pc[Worker] \in CalIdle /\ callsLeft[Worker] > 0 /\ lock = NoThread
        /\ callsLeft' = Set(callsLeft, Worker, callsLeft[Worker] - 1)
        /\ op' = Set(op, Worker, "autoset")
        /\ lock' = Worker
        /\ auto' = [tries |-> 0, hits |-> 0, rate |-> 2 * TOP_RATE]
        /\ on' = [c \in Channels |-> TRUE]
        /\ sweepmode' = AUTO
        /\ trigger_position' = r.trigger_position
        /\ sampling_rate' = r.sampling_rate
        /\ rollmode' = r.rollmode
        /\ peakmode' = r.peakmode
        /\ voltoffset' = [c \in Channels |-> 0]
        /\ queue' = s2.q /\ nid' = s2.n /\ latest' = s2.l
        /\ pc' = Set(pc, Worker, "a_loop")
        /\ UNCHANGED <<handle, stopFlag, failures, tries, clockMoved, calibration,
                       probe, coupling, voltrange, sendvars, fetchvars, discarded,
                       stopPending, faultsLeft, plugged, unsettled, work, cstate,
                       store, before, signal, riter, objvars, owed>>

\* number of enabled channels: self.on.count(True)
CountOn == Cardinality({ c \in Channels : on[c] })

\* while tries < 10 and hits < self.on.count(True): tries += 1; self._submit();
\* after the loop: trg = self._send(CMD.GET_TRIGGERED, 0)
autoset_loop ==
    /\ pc[Worker] = "a_loop"
    /\ IF auto.tries < AUTOSET_TRIES /\ auto.hits < CountOn
       THEN /\ auto' = [auto EXCEPT !.tries = auto.tries + 1]
            /\ _submit(Worker, queue, latest, "a_wait")
       ELSE /\ cur' = Set(cur, Worker, Entry("GET_TRIGGERED", 0, 0))
            /\ ret' = Set(ret, Worker, "a_end")
            /\ pc' = Set(pc, Worker, "send_w")
            /\ UNCHANGED <<queue, latest, sret, auto>>
    /\ UNCHANGED <<handle, lock, stopFlag, nid, failures, tries, clockMoved, calibration,
                   devstate, op, call, fetchvars, discarded, stopPending, callsLeft,
                   faultsLeft, plugged, unsettled, work, cstate, store, before, signal, riter, objvars, owed>>

\* if self._stop.wait(0.2): return; else _pull_data(self.on, self._buffer) starts
autoset_wait ==
    /\ pc[Worker] = "a_wait"
    /\ IF stopFlag
       THEN /\ lock' = NoThread
            /\ pc' = Set(pc, Worker, "a_done")
            /\ UNCHANGED pull
       ELSE /\ pull' = [n |-> Len(ChannelsOn(on, 0)), i |-> 0, chls |-> ChannelsOn(on, 0), yielded |-> <<>>]
            /\ pc' = Set(pc, Worker, IF Len(ChannelsOn(on, 0)) > 0 THEN "pull_w" ELSE "a_loop")
            /\ UNCHANGED lock
    /\ UNCHANGED <<handle, stopFlag, qvars, failures, tries, clockMoved, calibration,
                   devstate, op, sendvars, frames, nsubmit, discarded, stopPending,
                   callsLeft, faultsLeft, plugged, calvars>>

\* the reply trg of GET_TRIGGERED is read:
\* self._push(CMD.SET_TRIGGER, (0x0000, 0x2000)[trg == 2]); self._push(CMD.SET_PEAKMODE, 0);
\* the with-block ends and autoset returns
autoset_end ==
    /\ pc[Worker] = "a_end"
    /\ \E trg \in 0 .. 2 :
          LET s1 == PushSeq(QState(queue, nid, latest),
                            << <<"SET_TRIGGER", IF trg = 2 THEN 8192 ELSE 0>>,
                               <<"SET_PEAKMODE", 0>> >>)
          IN  queue' = s1.q /\ nid' = s1.n /\ latest' = s1.l
    /\ lock' = NoThread
    /\ pc' = Set(pc, Worker, "a_done")
    /\ UNCHANGED <<handle, stopFlag, failures, tries, clockMoved, calibration,
                   devstate, op, sendvars, fetchvars, discarded, stopPending,
                   callsLeft, faultsLeft, plugged, calvars>>

(***************************************************************************)
(* read_iter(), iterated by the consumer.  Times are in microseconds.      *)
(***************************************************************************)
\* the cursor a frame header reports, and the time between two GET_DATA
\* writes of read_iter, in this model
ReadCursors == {0, 20, 3000, 5119}
ReadDelays == {10000, 20400, 6000000}

\* an exception leaves read_iter: the with-block releases the lock
read_raised ==
    /\ lock' = NoThread
    /\ tries' = Set(tries, Consumer, 0)
    /\ pc' = Set(pc, Consumer, "r_raised")
    /\ UNCHANGED <<handle, stopFlag>>

\* read_iter returns because the stop flag is set
read_return ==
    /\ lock' = NoThread
    /\ pc' = Set(pc, Consumer, "f_done")

\* first next(): with self._lock: the assignments, the locals, the four
\* pushes and self._submit()
read_start ==
    LET on1 == IF \E c \in Channels : on[c] THEN on ELSE [on EXCEPT ![CH1] = TRUE]
        s1  == PushSeq(QState(queue, nid, latest),
                       << <<"SET_SUF_TRG", 0>>, <<"SET_PRE_TRG", ADC_SIZE + 20>>,
                          <<"SET_DEEPMEMORY", ADC_SIZE + 20>>, <<"SET_ROLLMODE", 1>> >>)
    IN  /\ pc[Consumer] = "f_new" /\ lock = NoThread
        /\ lock' = Consumer
        /\ op' = Set(op, Consumer, "read_iter")
        /\ rollmode' = 1
        /\ trigger_position' = 0
        /\ on' = on1
        \* maxtime = ADC_SIZE / self.sampling_rate; clock = self._clock + 5
        /\ riter' = [chls |-> ChannelsOn(on1, 0),
                     maxtime |-> (ADC_SIZE \div 100) * sampling_rate[2],
                     elapsed |-> 0, first |-> TRUE, polls |-> 0,
                     cursors |-> [c \in Channels |-> 20], offset |-> 0, size |-> 0]
        /\ frames' = [c \in Channels |-> NoFrame]
        /\ nid' = s1.n
        /\ _submit(Consumer, s1.q, s1.l, "r_poll")
        /\ UNCHANGED <<handle, stopFlag, failures, tries, clockMoved, calibration,
                       probe, coupling, voltrange, voltoffset, sweepmode, peakmode,
                       sampling_rate, call, pull, nsubmit, discarded, stopPending,
                       callsLeft, faultsLeft, plugged, unsettled, work, cstate, store,
                       before, auto, signal, objvars, owed>>

\* for _ in range(6): if self._stop.wait(0.1): return;
\* if not self._send(CMD.GET_TRIGGERED, 0): break; after the loop the lock is released
read_poll ==
    /\ pc[Consumer] = "r_poll"
    /\ IF riter.polls = READ_POLLS
       THEN /\ lock' = NoThread
            /\ pc' = Set(pc, Consumer, "r_loop")
            /\ UNCHANGED <<cur, ret>>
       ELSE IF stopFlag
       THEN /\ read_return
            /\ UNCHANGED <<cur, ret>>
       ELSE /\ cur' = Set(cur, Consumer, Entry("GET_TRIGGERED", 0, 0))
            /\ ret' = Set(ret, Consumer, "r_trg")
            /\ pc' = Set(pc, Consumer, "send_w")
            /\ UNCHANGED lock
    /\ UNCHANGED <<handle, stopFlag, qvars, failures, tries, clockMoved, calibration,
                   devstate, op, sret, call, fetchvars, discarded, stopPending,
                   callsLeft, faultsLeft, plugged, calvars>>

\* the reply of GET_TRIGGERED is read: zero ends the loop
read_triggered ==
    /\ pc[Consumer] = "r_trg"
    /\ \E trg \in 0 .. 1 :
          IF trg = 0
          THEN /\ lock' = NoThread
               /\ pc' = Set(pc, Consumer, "r_loop")
               /\ UNCHANGED riter
          ELSE /\ riter' = [riter EXCEPT !.polls = riter.polls + 1]
               /\ pc' = Set(pc, Consumer, "r_poll")
               /\ UNCHANGED lock
    /\ UNCHANGED <<handle, stopFlag, qvars, failures, tries, clockMoved, calibration,
                   devstate, op, sendvars, fetchvars, discarded, stopPending,
                   callsLeft, faultsLeft, plugged, unsettled, work, cstate, store,
                   before, auto, signal, objvars, owed>>

\* while True: with self._lock: ...
read_acquire ==
    /\ pc[Consumer] = "r_loop" /\ lock = NoThread
    /\ riter.offset < MaxOffset
    /\ lock' = Consumer
    /\ pc' = Set(pc, Consumer, "r_wait")
    /\ UNCHANGED <<handle, stopFlag, qvars, failures, tries, clockMoved, calibration,
                   devstate, op, sendvars, fetchvars, discarded, stopPending,
                   callsLeft, faultsLeft, plugged, calvars>>

\* if self._stop.wait(delay): return
read_wait ==
    /\ pc[Consumer] = "r_wait"
    /\ IF stopFlag
       THEN read_return /\ stopPending' = FALSE
       ELSE pc' = Set(pc, Consumer, "r_write") /\ UNCHANGED <<lock, stopPending>>
    /\ UNCHANGED <<handle, stopFlag, qvars, failures, tries, clockMoved, calibration,
                   devstate, op, sendvars, fetchvars, discarded,
                   callsLeft, faultsLeft, plugged, calvars>>

\* self._bulk_write(cmd_get), dt after the previous write of GET_DATA (after
\* the last write before the loop for the first one, where clock is 5 s ahead);
\* a USBError is not caught here
read_write ==
    /\ pc[Consumer] = "r_write"
    /\ \/ /\ handle /\ plugged
          /\ clockMoved' = TRUE
          /\ \E dt \in ReadDelays :
                riter' = [riter EXCEPT !.elapsed = IF riter.first THEN dt - 5000000 ELSE dt]
          /\ pull' = [n |-> Len(riter.chls), i |-> 0, chls |-> riter.chls, yielded |-> <<>>]
          /\ pc' = Set(pc, Consumer, "r_read")
          /\ owed' = Set(owed, Consumer, Len(riter.chls))
          /\ UNCHANGED <<handle, lock, stopFlag, tries, faultsLeft>>
       \/ /\ handle /\ (faultsLeft > 0 \/ ~plugged)     \* USBError
          /\ faultsLeft' = IF plugged THEN faultsLeft - 1 ELSE faultsLeft
          /\ read_raised
          /\ UNCHANGED <<clockMoved, pull, riter, owed>>
       \/ /\ ~handle
          /\ read_raised
          /\ UNCHANGED <<faultsLeft, clockMoved, pull, riter, owed>>
    /\ UNCHANGED <<qvars, failures, calibration, devstate, op, sendvars, frames, nsubmit,
                   discarded, stopPending, callsLeft, plugged, unsettled, work, cstate,
                   store, before, auto, signal, objvars>>

\* a count of new samples that does not wrap around
NewSamples_linear(cursor, previous) == cursor - previous

\* size = (cursor - cursors[chl] + adc_size) % adc_size, adc_size = ADC_SIZE + 20
NewSamples(cursor, previous) ==
    (cursor - previous + (ADC_SIZE + 20)) % (ADC_SIZE + 20)

\* Frame(self, chl, buffer[FRAME_SIZE - size: FRAME_SIZE], offset, None)
ReadFrame(chl, size, offset) ==
    [channel |-> chl, size |-> size, offset |-> offset,
     sy |-> Frame(chl).sy, sx |-> Frame(chl).sx, ty |-> Frame(chl).ty]

\* one pass of for _ in range(chl_cnt): ret = self._bulk_read(buffer) and the
\* decoding of the frame; after the last channel the test of the clock, and
\* the Frames are yielded
read_read ==
    /\ pc[Consumer] = "r_read"
    /\ \/ /\ handle /\ plugged                     \* FRAME_SIZE bytes
          /\ failures' = 0
          /\ owed' = Set(owed, Consumer, owed[Consumer] - 1)
          /\ \E cursor \in ReadCursors :
                LET chl  == pull.chls[pull.i + 1]
                    size == NewSamples(cursor, riter.cursors[chl])
                    last == pull.i + 1 = pull.n
                IN  IF size = 0                      \* assert size > 0
                    THEN read_raised /\ UNCHANGED <<pull, frames, riter>>
                    ELSE /\ pull' = [pull EXCEPT !.i = pull.i + 1,
                                  !.yielded = Append(@, pull.chls[pull.i + 1])]
                         /\ frames' = [frames EXCEPT ![chl] = ReadFrame(chl, size, riter.offset)]
                         /\ IF ~last
                            THEN /\ riter' = [riter EXCEPT !.cursors[chl] = cursor,
                                                           !.size = size]
                                 /\ UNCHANGED <<handle, lock, stopFlag, tries, pc>>
                            ELSE IF riter.elapsed < riter.maxtime
                            THEN /\ riter' = [riter EXCEPT !.cursors[chl] = cursor,
                                                           !.size = size,
                                                           !.first = FALSE,
                                                           !.offset = riter.offset + size]
                                 /\ lock' = NoThread
                                 /\ pc' = Set(pc, Consumer, "r_yield")
                                 /\ UNCHANGED <<handle, stopFlag, tries>>
                            ELSE /\ riter' = [riter EXCEPT !.cursors[chl] = cursor,
                                                           !.size = size]
                                 /\ read_raised
          /\ UNCHANGED faultsLeft
       \/ /\ handle /\ plugged                     \* a busy reply: assert ret == FRAME_SIZE
          /\ failures' = 0
          /\ owed' = Set(owed, Consumer, 0)
          /\ read_raised
          /\ UNCHANGED <<faultsLeft, pull, frames, riter>>
       \/ /\ handle /\ (faultsLeft > 0 \/ ~plugged)     \* USBError
          /\ faultsLeft' = IF plugged THEN faultsLeft - 1 ELSE faultsLeft
          /\ read_raised
          /\ UNCHANGED <<failures, pull, frames, riter, owed>>
       \/ /\ ~handle
          /\ read_raised
          /\ UNCHANGED <<failures, faultsLeft, pull, frames, riter, owed>>
    /\ UNCHANGED <<qvars, clockMoved, calibration, devstate, op, sendvars, nsubmit,
                   discarded, stopPending, callsLeft, plugged, unsettled, work, cstate,
                   store, before, auto, signal, objvars>>

\* the consumer takes the yielded Frames and calls next() again
read_next ==
    /\ pc[Consumer] = "r_yield"
    /\ pc' = Set(pc, Consumer, "r_loop")
    /\ UNCHANGED <<handle, lock, stopFlag, qvars, failures, clockMoved, calibration,
                   devstate, op, sendvars, fetchvars, discarded, stopPending,
                   callsLeft, faultsLeft, plugged, tries, calvars>>

(***************************************************************************)
(* The device: it may be unplugged at any time.                            *)
(***************************************************************************)
unplug ==
    /\ plugged /\ handle
    /\ plugged' = FALSE
    /\ UNCHANGED <<handle, lock, stopFlag, qvars, failures, clockMoved, calibration,
                   devstate, pc, op, sendvars, fetchvars, discarded, stopPending,
                   callsLeft, faultsLeft, tries, calvars>>

(***************************************************************************)
(* The session: all threads.                                               *)
(***************************************************************************)
Next ==
    \/ \E t \in Threads \ {Worker} : SendWrite(t)
    \/ \E t \in Threads \ {Worker} : SendRead(t)
    \/ \E a \in SetChannelArgs : set_channel(Caller, a)
    \/ \E a \in SetSamplingArgs : set_sampling(Caller, a)
    \/ \E a \in SendArgs : send_call(a)
    \/ send_acquire
    \/ send_cmd
    \/ send_ret
    \/ \E new \in BOOLEAN : stop_call(new)
    \/ stop_acquire
    \/ stop_ok
    \/ new_init
    \/ ka_top
    \/ ka_wait
    \/ ka_acquire
    \/ ka_release
    \/ ka_dispose
    \/ fetch_start(FALSE)
    \/ fetch_acquire
    \/ fetch_wait
    \/ pull_write(Consumer)
    \/ pull_read(Consumer)
    \/ pull_busy(Consumer)
    \/ fetch_post
    \/ fetch_end
    \/ fetch_next
    \/ unplug

Spec == Init /\ [][Next]_vars

(***************************************************************************)
(* An application with two threads: the caller thread uses send while the  *)
(* worker thread configures a channel.  The keep-alive thread is not       *)
(* scheduled and no iterator is running.                                   *)
(***************************************************************************)
NextApp ==
    \/ \E a \in SendArgs : send_call(a)
    \/ send_acquire
    \/ SendWrite(Caller)
    \/ SendRead(Caller)
    \/ send_cmd
    \/ send_ret
    \/ \E a \in SetChannelArgs : set_channel(Worker, a)

SpecApp == Init /\ [][NextApp]_vars

(***************************************************************************)
(* Configuration: one thread calls set_channel, set_sampling,              *)
(* set_timerange, set_trigger and send, with arguments that are accepted   *)
(* and arguments that are rejected.                                        *)
(***************************************************************************)
CfgChannelArgs ==
    { [channel |-> CH1, range |-> r, offset |-> 500, probe |-> 1, coupling |-> DC] :
          r \in {0, 50000, 50400, 50600, 120000, 3000000, 50000000, 50000400, 60000000} }
    \cup { [channel |-> CH2, range |-> 20000000, offset |-> o, probe |-> pr, coupling |-> AC] :
          o \in {0, 1100}, pr \in {0, 10} }

CfgSamplingArgs ==
    { [rate |-> r, roll |-> None, peak |-> 0] :
          r \in { <<2, 1>>, <<5, 2>>, <<3, 1>>, <<7, 1>>, <<2500, 1>>, <<60000000, 1>>,
                  <<100000000, 1>>, <<100000001, 1>> } }
    \cup { [rate |-> <<25000, 1>>, roll |-> 1, peak |-> 1] }

CfgTimerangeArgs ==
    { [range |-> r, roll |-> None, peak |-> 0] :
          r \in { <<1, 1>>, <<1, 20000>>, <<2000, 1>>, <<3000, 1>> } }

CfgTriggerArgs ==
    { [source |-> CH1, mode |-> EDGE, condition |-> RISE, position |-> 500,
       level |-> <<l>>, width |-> 3, holdoff |-> 10, sweep |-> ONCE] :
          l \in {0, 2500, 20000} }
    \cup { [source |-> CH2, mode |-> m, condition |-> FALL_EQU, position |-> 200,
            level |-> <<-1000, 1000>>, width |-> w, holdoff |-> 20000, sweep |-> NORMAL] :
          m \in {SLOPE, PULSE, VIDEO}, w \in {200000, -100000000} }
    \cup { [source |-> EXT, mode |-> m, condition |-> FALL, position |-> 1000,
            level |-> <<0>>, width |-> 3, holdoff |-> 10, sweep |-> AUTO] :
          m \in {EDGE, PULSE} }

\* the request that feeds the current sampling rate back; it is the only
\* request here that asks for peak mode without changing the rate
SameRate == [rate |-> sampling_rate, roll |-> None, peak |-> 1]

InitCfg == InitState(NoPoint, MaxConfigs, MaxFaults, NoSignal)

NextCfg ==
    \/ \E a \in CfgChannelArgs : set_channel(Caller, a)
    \/ \E a \in CfgSamplingArgs \cup {SameRate} : set_sampling(Caller, a)
    \/ \E a \in CfgTimerangeArgs : set_timerange(Caller, a)
    \/ \E a \in CfgTriggerArgs : set_trigger(Caller, a)
    \/ \E a \in SendArgs : send_call(a)
    \/ send_acquire
    \/ SendWrite(Caller)
    \/ SendRead(Caller)
    \/ send_cmd
    \/ send_ret

SpecCfg == InitCfg /\ [][NextCfg]_vars

(***************************************************************************)
(* Configuration against a device that may answer a command with a reply   *)
(* of the wrong length.                                                    *)
(***************************************************************************)
NextShort ==
    \/ \E a \in CfgChannelArgs : set_channel(Caller, a)
    \/ \E a \in SendArgs : send_call(a)
    \/ send_acquire
    \/ SendWrite(Caller)
    \/ SendRead(Caller)
    \/ SendReadShort(Caller)
    \/ send_cmd
    \/ send_ret

SpecShort == InitCfg /\ [][NextShort]_vars

(***************************************************************************)
(* A calibration: the worker thread runs calibrate() on a device that may  *)
(* fail to settle at one point, while the caller thread may call stop()    *)
(* and the keep-alive thread runs.                                         *)
(***************************************************************************)
InitCal == \E u \in UnsettledPoints \cup {NoPoint} : InitDevice(u)

NextCal ==
    \/ calibrate_call
    \/ calibrate_acquire
    \/ calibrate_wait
    \/ calibrate_round
    \/ calibrate_end
    \/ pull_write(Worker)
    \/ pull_read(Worker)
    \/ pull_busy(Worker)
    \/ \E t \in Threads \ {Consumer} : SendWrite(t)
    \/ \E t \in Threads \ {Consumer} : SendRead(t)
    \/ stop_call(FALSE)
    \/ stop_acquire
    \/ stop_ok
    \/ ka_top
    \/ ka_wait
    \/ ka_acquire
    \/ ka_release
    \/ ka_dispose
    \/ unplug

SpecCal == InitCal /\ [][NextCal]_vars

(***************************************************************************)
(* Auto-ranging: the consumer iterates fetch_iter(autorange=True), the      *)
(* worker thread calls autoset(), the caller thread configures a channel    *)
(* and may call stop().  The device returns frames of any of FramePoints.   *)
(***************************************************************************)
AutoChannelArgs ==
    { [channel |-> CH1, range |-> r, offset |-> 500, probe |-> 1, coupling |-> DC] :
        r \in {5000, 5000000} }

InitAuto == \E sig \in Signals : InitState(NoPoint, MaxAutoCalls, MaxFaults, sig)

NextAuto ==
    \/ \E a \in AutoChannelArgs : set_channel(Caller, a)
    \/ fetch_start(TRUE)
    \/ fetch_acquire
    \/ fetch_wait
    \/ fetch_post
    \/ fetch_end
    \/ fetch_next
    \/ autoset_acquire
    \/ autoset_loop
    \/ autoset_wait
    \/ autoset_end
    \/ \E t \in {Consumer, Worker} : pull_write(t)
    \/ \E t \in {Consumer, Worker} : pull_read(t)
    \/ \E t \in {Consumer, Worker} : pull_busy(t)
    \/ \E t \in {Consumer, Worker} : SendWrite(t)
    \/ \E t \in Threads \ {KeepAlive} : SendWrite(t)
    \/ \E t \in Threads \ {KeepAlive} : SendRead(t)
    \/ stop_call(FALSE)
    \/ stop_acquire
    \/ stop_ok

SpecAuto == InitAuto /\ [][NextAuto]_vars

(***************************************************************************)
(* Streaming: the consumer iterates read_iter() while the caller thread    *)
(* may enable the second channel, change the sampling rate or call stop(). *)
(***************************************************************************)
NextRead ==
    \/ read_start
    \/ read_poll
    \/ read_triggered
    \/ read_acquire
    \/ read_wait
    \/ read_write
    \/ read_read
    \/ read_next
    \/ \E a \in SetChannelArgs : set_channel(Caller, a)
    \/ \E a \in SetSamplingArgs : set_sampling(Caller, a)
    \/ stop_call(FALSE)
    \/ stop_acquire
    \/ stop_ok
    \/ \E t \in {Caller, Consumer} : SendWrite(t)
    \/ \E t \in {Caller, Consumer} : SendRead(t)

SpecRead == Init /\ [][NextRead]_vars

(***************************************************************************)
(* A calibration of a synthetic device: at one point of the table the mean *)
(* of the samples is target + f(correction) with a decreasing f.           *)
(***************************************************************************)
InitSyn == \E u \in SyntheticPoints : InitState(u, MaxCalls, 0, NoSignal)

NextSyn ==
    \/ calibrate_call
    \/ calibrate_acquire
    \/ calibrate_wait
    \/ calibrate_round
    \/ calibrate_end
    \/ pull_write(Worker)
    \/ pull_read(Worker)
    \/ pull_busy(Worker)
    \/ SendWrite(Worker)
    \/ SendRead(Worker)

SpecSyn == InitSyn /\ [][NextSyn]_vars

(***************************************************************************)
(* Construction: one thread configures a channel, calls stop() and calls   *)
(* VDS1022() again, against a device whose transfers may fail and which    *)
(* may be unplugged.  No other thread of the session is scheduled.         *)
(***************************************************************************)
InitNew == InitState(NoPoint, MaxNewCalls, MaxNewFaults, NoSignal)

NextNew ==
    \/ \E a \in SetChannelArgs : set_channel(Caller, a)
    \/ \E new \in BOOLEAN : stop_call(new)
    \/ new_call_released
    \/ stop_acquire
    \/ SendWrite(Caller)
    \/ SendRead(Caller)
    \/ stop_ok
    \/ new_init
    \/ new_object
    \/ unplug

SpecNew == InitNew /\ [][NextNew]_vars

(***************************************************************************)
(* Packing: every command of the table with arguments around the limits of *)
(* the three field widths.                                                 *)
(***************************************************************************)
PackArgs ==
    { Wide(v) : v \in {0, 1, 5, 255, 256, 5100, 32770, 65535, 65536, 100000000, -1, -256} }
    \cup { <<65535, 65535>>, <<65536, 0>>, <<65536, 255>>, <<32768, 0>> }

InitPack ==
    \E c \in CMD, a \in PackArgs :
        InitObject(NoPoint, 0, 0, NoSignal, [cmd |-> c.name, arg |-> a, out |-> NotPacked])

\* cmd.pack(arg)
pack_apply ==
    /\ packet.out = NotPacked
    /\ \E c \in CMD :
          /\ c.name = packet.cmd
          /\ packet' = [packet EXCEPT !.out = pack(c, packet.arg)]
    /\ UNCHANGED <<handle, lock, stopFlag, qvars, failures, tries, clockMoved, calibration,
                   devstate, pc, op, sendvars, fetchvars, discarded, stopPending, callsLeft,
                   faultsLeft, plugged, unsettled, work, cstate, store, before, auto,
                   signal, riter, instance, old_open, polled, owed, sent>>

SpecPack == InitPack /\ [][pack_apply]_vars

(***************************************************************************)
(* Fetching with a trigger: the caller sets the trigger and its sweep mode *)
(* while the consumer iterates fetch_iter.                                 *)
(***************************************************************************)
SweepTriggerArgs ==
    { [source |-> CH1, mode |-> EDGE, condition |-> RISE, position |-> 500,
       level |-> <<0>>, width |-> 3, holdoff |-> 10, sweep |-> sw] :
          sw \in {AUTO, NORMAL, ONCE} }

NextSweep ==
    \/ \E a \in SweepTriggerArgs : set_trigger(Caller, a)
    \/ fetch_start(FALSE)
    \/ fetch_acquire
    \/ fetch_wait
    \/ fetch_finished
    \/ fetch_triggered
    \/ SendWrite(Consumer)
    \/ SendRead(Consumer)
    \/ pull_write(Consumer)
    \/ pull_read(Consumer)
    \/ pull_busy(Consumer)
    \/ fetch_post
    \/ fetch_end
    \/ fetch_next

SpecSweep == InitCfg /\ [][NextSweep]_vars

(***************************************************************************)
(* Fetching with feedback: the caller enables channels, the consumer       *)
(* iterates fetch_iter with autorange, autosense or both.  The signal is   *)
(* stable and fits the ranges asked for, no transfer fails, nobody calls   *)
(* stop().  SpecSenseFair adds what the scheduling gives: the consumer     *)
(* thread keeps running, and a device that is asked again and again ends   *)
(* up returning the frame instead of a busy reply.                         *)
(***************************************************************************)
SenseSignals ==
    { [ampl |-> <<700, 700>>, time_sum |-> 1, period_num |-> 10] }

SenseChannelArgs ==
    { [channel |-> c, range |-> 20000000, offset |-> 500, probe |-> 10, coupling |-> DC] :
          c \in Channels }

InitSense == \E sig \in SenseSignals : InitState(NoPoint, MaxConfigs, 0, sig)

ConsumerSense ==
    \/ \E autorange \in BOOLEAN : fetch_start_sense(autorange)
    \/ fetch_start(TRUE)
    \/ fetch_acquire
    \/ fetch_wait
    \/ SendWrite(Consumer)
    \/ SendRead(Consumer)
    \/ pull_write(Consumer)
    \/ pull_read(Consumer)
    \/ pull_busy(Consumer)
    \/ fetch_post
    \/ fetch_end
    \/ fetch_next

\* the device returns a frame
pull_frame == pull_read(Consumer) /\ pull'.i = pull.i + 1

NextSense ==
    \/ \E a \in SenseChannelArgs : set_channel(Caller, a)
    \/ ConsumerSense

SpecSense == InitSense /\ [][NextSense]_vars
SpecSenseFair == SpecSense /\ WF_vars(ConsumerSense) /\ SF_vars(pull_frame)

(***************************************************************************)
(* The end-to-end example: the caller configures CH1 (range 10 V at the    *)
(* probe, offset 0.5, probe x10, DC) and a time range of 20 ms while the   *)
(* consumer fetches.                                                       *)
(***************************************************************************)
ExampleChannel ==
    [channel |-> CH1, range |-> 10000000, offset |-> 500, probe |-> 10, coupling |-> DC]
ExampleTimerange == [range |-> <<1, 50>>, roll |-> None, peak |-> 0]

NextExample ==
    \/ set_channel(Caller, ExampleChannel)
    \/ set_timerange(Caller, ExampleTimerange)
    \/ fetch_start(FALSE)
    \/ fetch_acquire
    \/ fetch_wait
    \/ SendWrite(Consumer)
    \/ SendRead(Consumer)
    \/ pull_write(Consumer)
    \/ pull_read(Consumer)
    \/ pull_busy(Consumer)
    \/ fetch_post
    \/ fetch_end
    \/ fetch_next

SpecExample == InitCfg /\ [][NextExample]_vars

(***************************************************************************)
(* Properties.                                                             *)
(***************************************************************************)
\* a thread at one of these points is inside a command exchange or inside
\* the GET_DATA sequence of _pull_data
BulkPoints == {"send_w", "send_r", "pull_w", "pull_r", "pull_busy"}
SendPoints == {"send_w", "send_r"}

\* C1: every bulk write and bulk read is made by a thread that holds the
\* session lock, so that at most one thread is inside an exchange or a
\* multi-frame GET_DATA sequence at any time.
C1_BulkUnderLock ==
    /\ \A t \in Threads : pc[t] \in BulkPoints => lock = t
    /\ Cardinality({ t \in Threads : pc[t] \in BulkPoints }) <= 1

\* the consumer is between the two frames of a GET_DATA sequence while the
\* keep-alive thread waits for the lock to send its idle command
C1_Witness ==
    /\ pc[Consumer] = "pull_r" /\ pull.n = CHANNELS /\ pull.i = 1
    /\ pc[KeepAlive] = "ka_acq"

\* C2: once stop() has been called while the iterator was in flight, the
\* iterator yields no further Frames: it only ends.
C2_NoFramesAfterStop ==
    [][(stopPending /\ pc[Consumer] # "f_yield") => pc'[Consumer] # "f_yield"]_vars

\* C3: _send raises the USBError only when the call itself has failed three
\* times (two retries).
C3_RaisesAfterThirdFailure ==
    [][\A t \in Threads :
          (pc[t] \in SendPoints /\ failures' = failures + 1 /\ failures' > 2)
              => tries[t] = 2]_vars

\* C4: the queue holds at most one entry per command, the argument of an
\* entry is the argument of the latest _push of its command since the
\* command was last sent or the queue was cleared, and every command pushed
\* since then is in the queue.
C4_OneEntryLatestValue ==
    /\ \A i, j \in 1 .. Len(queue) : i # j => queue[i].cmd # queue[j].cmd
    /\ \A i \in 1 .. Len(queue) : queue[i].arg = latest[queue[i].cmd]
    /\ \A c \in Commands : latest[c] # None => \E i \in 1 .. Len(queue) : queue[i].cmd = c

\* set_channel has pushed SET_CHANNEL of CH2 again while the value pushed by
\* _initialize was still pending
C4_Witness ==
    \E i \in 1 .. Len(queue) :
        /\ queue[i].cmd = SET_CHANNEL[CH2 + 1]
        /\ queue[i].arg # Initialized(0, FlashCalibration).s.l[SET_CHANNEL[CH2 + 1]]
        /\ \E j \in 1 .. Len(queue) : queue[j].cmd = SET_TRG_HOLDOFF[CH2 + 1]

\* C5: a flush transmits the pending commands in the order their current
\* values were pushed: the command a flush takes from the queue was pushed
\* before every command that stays pending, and the pending commands are
\* kept in the order of their pushes.
C5_FlushInPushOrder ==
    [][/\ \A t \in Threads :
             (cur'[t] # cur[t] /\ ret'[t] = "submit")
                 => \A i \in 1 .. Len(queue') : cur'[t].id < queue'[i].id
       /\ \A i, j \in 1 .. Len(queue') : i < j => queue'[i].id < queue'[j].id]_vars

\* a flush transmits SET_DEEPMEMORY, pushed by _initialize, before the three
\* commands of CH2 that set_channel pushed again behind it
C5_Witness ==
    \E t \in Threads :
        /\ pc[t] = "send_r" /\ ret[t] = "submit" /\ cur[t].cmd = "SET_DEEPMEMORY"
        /\ Len(queue) = 3 /\ queue[1].cmd = SET_ZERO_OFF[CH2 + 1]
        /\ queue[3].cmd = SET_CHANNEL[CH2 + 1]

\* C6: when send(cmd, arg) returns, every pending command has been
\* transmitted, the last exchange was cmd with arg, and the queue is empty.
C6_SendLeavesQueueEmpty ==
    pc[Caller] = "send_ret"
        => /\ queue = <<>>
           /\ cur[Caller].cmd = call.cmd /\ cur[Caller].arg = call.arg

\* C7: stop() holds the lock from the moment it has emptied the queue until
\* its attempt of SET_RUNSTOP = 1 is over, and no command that stop() removed
\* from the queue is in an exchange afterwards.
C7_StopDiscardsThenHalts ==
    /\ (op[Caller] \in {"stop", "new"} /\ pc[Caller] \in SendPoints \cup {"stop_ok"})
           => /\ lock = Caller
              /\ queue = <<>>
              /\ cur[Caller].cmd = "SET_RUNSTOP" /\ cur[Caller].arg = 1
    /\ \A t \in Threads : pc[t] \in SendPoints => cur[t].id \notin discarded

\* stop() has removed pending commands and waits for the reply to its
\* SET_RUNSTOP, while the consumer waits for the lock
C7_Witness ==
    /\ op[Caller] = "stop" /\ pc[Caller] = "send_r"
    /\ discarded # {}
    /\ pc[Consumer] = "f_loop"

\* C8: while the consumer holds the lock in fetch_iter, a step of another
\* thread changes neither the queue nor the fields a Frame is scaled from.
C8_ConfigSerialized ==
    [][(lock = Consumer /\ pc'[Consumer] = pc[Consumer] /\ pull' = pull)
          => UNCHANGED <<queue, voltrange, probe, voltoffset, sampling_rate>>]_vars

\* C9: the keep-alive thread starts its idle command only if no bulk write
\* was made since it read the clock.
C9_IdleOnlyWhenQuiet ==
    [][(pc[KeepAlive] = "ka_acq" /\ pc'[KeepAlive] = "send_w") => ~clockMoved]_vars

\* C10: when calibrate() ends because the stop flag was set, because a channel
\* did not converge or because a transfer failed during the steps, the
\* session's table and the calibration file are what they were when it was
\* called; once calibrate() has been called they change only when every COMP
\* and AMPL step has succeeded, and then both are the new table.
C10_TableKeptUnlessComplete ==
    /\ (\/ pc[Worker] \in {"c_false", "c_noconv"}
        \/ pc[Worker] = "c_raised" /\ cstate.phase = "steps")
           => (calibration = before.calibration /\ store = before.store)
    /\ (op[Worker] = "calibrate" /\ (calibration # before.calibration \/ store # before.store))
           => /\ cstate.phase = "commit"
              /\ cstate.ical = AMPL /\ cstate.vb = Len(VOLT_RANGES) - 1
              /\ ~AnyOn(cstate.on)
              /\ calibration = work /\ store = work

\* calibrate() was stopped during the AMPL steps, after the COMP steps had
\* changed its working table
C10_Witness ==
    /\ pc[Worker] = "c_false" /\ cstate.ical = AMPL
    /\ work # Clipped(before.calibration)

\* C11: a call of set_channel, set_sampling, set_timerange or set_trigger that
\* rejects its arguments leaves the pending queue and the device state as they
\* were before the call.
C11_RejectedCallChangesNothing ==
    [][(pc[Caller] = "idle" /\ pc'[Caller] = "rejected")
          => UNCHANGED <<queue, devstate>>]_vars

\* the ladder of volt ranges, in millivolts
Ladder == { VOLT_RANGES[i] : i \in 1 .. Len(VOLT_RANGES) }

\* C12: the voltrange of every channel is always one of the ten values of
\* VOLT_RANGES: after _initialize, set_channel, _adjust_range and autoset.
C12_VoltrangeOnLadder ==
    \A c \in Channels : voltrange[c] \in Ladder

\* fetch_iter's auto-range has moved CH1 off the default range, and autoset
\* has moved CH2 off it, in a session where set_channel was not called
C12_Witness ==
    /\ callsLeft[Caller] = MaxAutoCalls
    /\ op[Consumer] = "fetch_iter_autorange" /\ pc[Consumer] = "f_yield"
    /\ pc[Worker] = "a_done" /\ auto.tries > 1
    /\ voltrange[CH1] # DefaultVoltrange[CH1]
    /\ voltrange[CH2] # DefaultVoltrange[CH2]

\* C13: for every request set_channel accepts, of a range v (microvolts here)
\* with the probe ratio p, the voltrange stored is the smallest entry of
\* VOLT_RANGES that is at or above v / p.
C13_SmallestRangeAtOrAbove ==
    [][\A a \in CfgChannelArgs :
          (set_channel(Caller, a) /\ SetChannelAccepts(a))
             => /\ voltrange'[a.channel] * 1000 * a.probe >= a.range
                /\ \A e \in Ladder :
                      e * 1000 * a.probe >= a.range => voltrange'[a.channel] <= e]_vars

\* C14: for every rate r from 2.5 S/s to 100 MS/s that set_sampling accepts,
\* or that set_timerange derives as SAMPLES / timerange, the prescaler queued
\* with SET_TIMEBASE is max(1, round(100e6 / r)) and sampling_rate becomes
\* top rate / prescaler.
C14_PrescalerFromRate ==
    [][\A rate \in { a.rate : a \in CfgSamplingArgs }
                \cup { <<SAMPLES * a.range[2], a.range[1]>> : a \in CfgTimerangeArgs } :
          LET g         == GCD(TOP_RATE, rate[1])
              prescaler == _max(1, Round((TOP_RATE \div g) * rate[2], rate[1] \div g))
          IN  (/\ RateInRange(rate)
               /\ \/ \E a \in CfgSamplingArgs : a.rate = rate /\ set_sampling(Caller, a)
                  \/ \E a \in CfgTimerangeArgs :
                        /\ rate = <<SAMPLES * a.range[2], a.range[1]>>
                        /\ set_timerange(Caller, a))
                 => /\ sampling_rate' = <<TOP_RATE, prescaler>>
                    /\ sampling_rate' # sampling_rate
                          => latest'["SET_TIMEBASE"] = prescaler]_vars

\* the pending SET_TIMEBASE entries
TimebaseEntries(q) == SelectSeq(q, LAMBDA e : e.cmd = "SET_TIMEBASE")

\* C15: set_sampling called with the sampling_rate of Device State computes
\* the same prescaler: sampling_rate is unchanged and no SET_TIMEBASE is queued.
C15_SamplingRateIsFixedPoint ==
    [][set_sampling(Caller, SameRate)
          => /\ pc'[Caller] = "idle"
             /\ Prescaler(sampling_rate) = sampling_rate[2]
             /\ sampling_rate' = sampling_rate
             /\ TimebaseEntries(queue') = TimebaseEntries(queue)]_vars

\* the rate a first call produced was fed back by a second call
C15_Witness ==
    /\ callsLeft[Caller] = 0 /\ pc[Caller] = "idle"
    /\ peakmode = 1
    /\ sampling_rate[2] \notin {Prescaler(<<250000, 1>>), Prescaler(<<25000, 1>>)}

\* C16: the number of new samples read_iter takes from a frame is (cursor -
\* previous cursor) mod 5120; a read without forward progress, or one whose
\* GET_DATA was written ADC_SIZE / sampling_rate or more after that of the
\* previous read (sampling_rate as it was when read_iter started), ends
\* read_iter with an error and yields nothing.
C16_ReadIterCounts ==
    [][read_read =>
          LET chl == pull.chls[pull.i + 1]
              late == ~riter.first /\ riter.elapsed >= riter.maxtime
          IN  /\ frames'[chl] # frames[chl]
                    => /\ frames'[chl].size = (riter'.cursors[chl] - riter.cursors[chl]) % 5120
                       /\ riter'.cursors[chl] # riter.cursors[chl]
              /\ pc'[Consumer] = "r_yield"
                    => /\ ~late
                       /\ \A i \in 1 .. Len(riter.chls) : frames'[riter.chls[i]].size > 0
              /\ (late /\ pull.i + 1 = pull.n) => pc'[Consumer] = "r_raised"
              /\ pc'[Consumer] \in {"r_read", "r_yield", "r_raised"}]_vars

\* a read after the first one came too late and ended read_iter with the error
C16_Witness ==
    /\ pc[Consumer] = "r_raised"
    /\ ~riter.first /\ riter.offset > 0
    /\ riter.elapsed >= riter.maxtime
    /\ pull.i = pull.n

\* the amplitude _adjust_range sees in the frame of channel chl is in the
\* band: 30 or more and below ADC_RANGE
InBand(chl) ==
    LET f == DeviceFrame(chl)
        r == _adjust_range(chl, f.pt_min, f.pt_max)
    IN  r.amp >= 30 /\ r.amp < ADC_RANGE

\* C17: _adjust_range on a frame whose amplitude is 30 or more and below
\* ADC_RANGE changes neither voltrange nor voltoffset and queues no command:
\* fetch_iter decodes the frame.
C17_InBandFrameLeftAlone ==
    [][(/\ pull_read(Consumer)
        /\ op[Consumer] = "fetch_iter_autorange"
        /\ pull'.i = pull.i + 1
        /\ InBand(pull.chls[pull.i + 1]))
          => /\ UNCHANGED <<voltrange, voltoffset, qvars>>
             /\ frames'[pull.chls[pull.i + 1]] = Frame(pull.chls[pull.i + 1])]_vars

\* after an adjustment of the range of CH1 the next frame of CH1 was in the
\* band and has been yielded
C17_Witness ==
    /\ op[Consumer] = "fetch_iter_autorange" /\ pc[Consumer] = "f_yield"
    /\ callsLeft[Caller] = MaxAutoCalls /\ op[Worker] = ""
    /\ voltrange[CH1] # DefaultVoltrange[CH1]
    /\ frames[CH1] = Frame(CH1)
    /\ InBand(CH1)

\* C18: against a synthetic device that reports the mean target +
\* f(correction) for a monotonic f, _calibrate declares both channels
\* converged within ten rounds, and the error at the correction it ends
\* with is below 2 in absolute value.
C18_SyntheticDeviceConverges ==
    /\ pc[Worker] # "c_noconv"
    /\ \A chl \in Channels :
          (op[Worker] = "calibrate" /\ cstate.phase = "steps" /\ ~cstate.on[chl])
             => Abs(Err(chl)) < ERR_NEAR

\* C19: a bulk read of _send that returns a number of bytes other than the
\* expected 5 ends the call at once: the command is not written again, the
\* failure counter keeps its value, the lock is released by the exception
\* and the thread does not continue where the parsed response would have
\* taken it.
C19_ShortReadIsFatal ==
    [][SendReadShort(Caller)
          => /\ failures' = failures
             /\ pc'[Caller] = "asserted"
             /\ pc'[Caller] \notin SendPoints \cup {ret[Caller], sret[Caller]}
             /\ lock' = NoThread
             /\ UNCHANGED <<queue, cur, stopFlag, handle>>]_vars

\* a reply of the wrong length followed a failed transfer of the same call
C19_Witness ==
    /\ pc[Caller] = "asserted"
    /\ failures = 1
    /\ queue # <<>>

\* a call of one of the four configuration methods by the caller thread
ConfigCall ==
    \/ \E a \in CfgChannelArgs : set_channel(Caller, a)
    \/ \E a \in CfgSamplingArgs \cup {SameRate} : set_sampling(Caller, a)
    \/ \E a \in CfgTimerangeArgs : set_timerange(Caller, a)
    \/ \E a \in CfgTriggerArgs : set_trigger(Caller, a)

\* C20: set_channel, set_sampling, set_timerange and set_trigger transfer
\* nothing: a call changes only the device state and the pending queue (no
\* write is started, the write clock, the failure counter, the lock and the
\* handle keep their values), and a command starts its way to the device
\* only in a step of a flush, here the flush of send under the lock.
C20_ConfigCallsTransferNothing ==
    [][/\ ConfigCall
          => /\ pc'[Caller] \in {"idle", "rejected"}
             /\ UNCHANGED <<handle, lock, stopFlag, failures, tries, clockMoved,
                            sendvars, calibration, fetchvars, op, faultsLeft,
                            plugged, calvars>>
       /\ cur'[Caller] # cur[Caller]
          => /\ op[Caller] = "send"
             /\ lock' = Caller
             /\ pc'[Caller] = "send_w"]_vars

\* two configuration calls have changed the device state and the queue and
\* no transfer has been made
C20_Witness ==
    /\ pc[Caller] = "idle"
    /\ callsLeft[Caller] = 0
    /\ op[Caller] = ""
    /\ ~clockMoved
    /\ voltrange[CH1] # DefaultVoltrange[CH1]
    /\ sweepmode = ONCE
    /\ \E i \in 1 .. Len(queue) : queue[i].id >= Initialized(0, FlashCalibration).s.n

\* the objects that hold an open handle
Holders == old_open \cup (IF handle THEN {instance} ELSE {})

\* C21: at most one VDS1022 object holds an open handle; VDS1022() on a
\* connected session whose stop() succeeded returns the same object with the
\* settings and the queue of _initialize; a new object is made only when the
\* handle of the previous one has been released.
C21_Singleton ==
    [][/\ Cardinality(Holders') <= 1
       /\ instance' # instance => ~handle
       /\ new_init =>
             /\ instance' = instance
             /\ handle =>
                   /\ on' = DefaultOn /\ probe' = DefaultProbe
                   /\ coupling' = DefaultCoupling
                   /\ voltrange' = DefaultVoltrange
                   /\ voltoffset' = DefaultVoltoffset
                   /\ sweepmode' = None
                   /\ queue' = Initialized(nid, calibration).s.q
                   /\ ~stopFlag']_vars

\* a second object holds the handle after the stop() of the first one failed
\* and released it
C21_Witness ==
    /\ instance = 2
    /\ handle
    /\ pc[Caller] = "idle"
    /\ old_open = {}

\* the entry of the command table a packet names
PacketCmd == CHOOSE c \in CMD : c.name = packet.cmd

\* C22: for every command and every argument that fits the command's width
\* (1, 2 or 4 bytes) pack gives the address as four little-endian bytes, the
\* size byte and the argument in exactly size little-endian bytes, and the
\* value field decodes to the argument; an argument that does not fit
\* (negative, or 2^(8*size) and above) gives the error and no bytes.
C22_PackRoundTrip ==
    packet.out # NotPacked =>
        LET c    == PacketCmd
            a    == packet.arg
            fits == /\ a[1] >= 0
                    /\ \/ c.size = 4 /\ a[1] < 65536
                       \/ c.size = 2 /\ a[1] = 0
                       \/ c.size = 1 /\ a[1] = 0 /\ a[2] < 256
        IN  /\ c.size \in {1, 2, 4}
            /\ IF fits
               THEN /\ Len(packet.out) = 5 + c.size
                    /\ \A i \in 1 .. Len(packet.out) : packet.out[i] \in 0 .. 255
                    /\ packet.out[1] + 256 * packet.out[2] + 65536 * packet.out[3]
                          + 16777216 * packet.out[4] = c.address
                    /\ packet.out[5] = c.size
                    /\ unpack_value(packet.out) = a
               ELSE packet.out = PackError

\* a four-byte command packed with the largest value of its field
C22_Witness ==
    /\ packet.cmd = "SET_TIMEBASE"
    /\ packet.arg = <<65535, 65535>>
    /\ Len(packet.out) = 9
    /\ packet.out[9] = 255

\* the example's configuration is in the device state
ExampleConfigured ==
    /\ on[CH1] /\ probe[CH1] = 10 /\ coupling[CH1] = DC /\ voltoffset[CH1] = 0
    /\ voltrange[CH1] = 1000
    /\ sampling_rate = <<TOP_RATE, 400>>

\* a frame of CH1 is decoded in this step
DecodesCH1 == frames'[CH1] # frames[CH1] /\ frames'[CH1] # NoFrame

\* C23 as the code has it: with CH1 configured as range = 10 V, offset 0.5,
\* probe x10, DC and a time range of 20 ms, the CH1 frame of a fetch has
\* sy = 10 / 250 = 0.04 volts per sample (the range at the probe over the
\* 250 ADC steps; 40 mV) and sx = 1 / 250000 seconds per sample.
C23_ExampleFrameScale ==
    [][(ExampleConfigured /\ callsLeft[Caller] = 0 /\ DecodesCH1)
          => /\ frames'[CH1].sy[1] = 40 * frames'[CH1].sy[2]
             /\ frames'[CH1].sx[1] * 250000 = frames'[CH1].sx[2]]_vars

\* C23 as stated: the CH1 frame has sy = 10 * 10 / 250 = 0.4 volts per sample
\* (400 mV) and sx = 1 / sampling_rate.
C23_ExampleFrameScale_Stated ==
    [][(ExampleConfigured /\ callsLeft[Caller] = 0 /\ DecodesCH1)
          => /\ frames'[CH1].sy[1] = 400 * frames'[CH1].sy[2]
             /\ frames'[CH1].sx[1] * 250000 = frames'[CH1].sx[2]]_vars

\* a frame of CH1 was fetched in a cycle that started after both calls
C23_Witness ==
    /\ ExampleConfigured /\ callsLeft[Caller] = 0
    /\ frames[CH1] # NoFrame
    /\ frames[CH1].sy = <<10000, ADC_RANGE>>
    /\ frames[CH1].sx = <<400, TOP_RATE>>
    /\ pc[Consumer] = "f_post"

\* a step in which fetch_iter, read_iter, autoset, _calibrate or _pull_data
\* returns because the stop flag is set
StopReturn(t) ==
    /\ stopFlag
    /\ \/ t = Consumer /\ fetch_wait
       \/ t = Consumer /\ read_wait
       \/ t = Consumer /\ read_poll /\ riter.polls # READ_POLLS
       \/ t = Worker /\ autoset_wait
       \/ t = Worker /\ calibrate_wait
       \/ pull_busy(t)

PulledNow == { pull.chls[k] : k \in 1 .. pull.i }

\* C25: every Frames that fetch_iter yields holds, for each enabled channel,
\* a Frame decoded from a payload pulled in the acquisition cycle that ends
\* with the yield, and None for each disabled channel.
C25_YieldedFramesAreFresh ==
    (pc[Consumer] = "f_yield" /\ op[Consumer] = "fetch_iter") =>
        \A chl \in Channels :
            IF on[chl]
            THEN frames[chl] # NoFrame /\ chl \in PulledNow
            ELSE frames[chl] = NoFrame

\* C26: in fetch_iter, when the sweep mode tested in a pass of the acquisition
\* loop is NORMAL or ONCE, GET_DATA is written only after GET_DATAFINISHED
\* and GET_TRIGGERED both returned non-zero in that pass and after the
\* pending queue was flushed (what is queued was pushed after that flush
\* began); a poll that returns zero sends fetch_iter back to the wait, with no
\* GET_DATA written
C26_DataOnlyAfterPolls ==
    [][ /\ (/\ op[Consumer] = "fetch_iter"
            /\ pc[Consumer] = "pull_w" /\ pc'[Consumer] = "pull_r"
            /\ polled.mode \in {NORMAL, ONCE})
           => /\ polled.fin \notin {0, None}
              /\ polled.trg \notin {0, None}
              /\ \A i \in 1 .. Len(queue) : queue[i].id >= polled.since
        /\ (/\ pc[Consumer] \in {"f_fin", "f_trg"}
            /\ polled' # polled
            /\ (polled'.fin = 0 \/ polled'.trg = 0))
           => /\ pc'[Consumer] = "f_wait"
              /\ owed'[Consumer] = 0
      ]_vars

C26_Witness ==
    /\ op[Consumer] = "fetch_iter" /\ pc[Consumer] = "pull_r"
    /\ polled.mode = NORMAL /\ polled.fin = 1 /\ polled.trg = 1
    /\ sweepmode = NORMAL

\* the channel whose frame the consumer reads next
NextChannel == pull.chls[pull.i + 1]

\* C28: whenever fetch_iter with auto-range is about to read the frame of a
\* channel, _adjust_range on the minimum and maximum of that frame completes
\* without raising and selects a volt range of the ladder
C28_AdjustRangeCompletes ==
    (/\ op[Consumer] = "fetch_iter_autorange" /\ pc[Consumer] = "pull_r"
     /\ pull.i < pull.n)
        => LET f == DeviceFrame(NextChannel)
               r == _adjust_range(NextChannel, f.pt_min, f.pt_max)
           IN  /\ ~r.raised
               /\ \E i \in 1 .. Len(VOLT_RANGES) : r.voltrange = VOLT_RANGES[i]

AutoOps == {"fetch_iter_autorange", "fetch_iter_autosense", "fetch_iter_autoboth"}

\* C27: with autorange or autosense, once fetch_iter waits for an acquisition
\* it eventually yields a Frames, whichever channels are enabled
C27_EventuallyYields ==
    (pc[Consumer] = "f_wait" /\ op[Consumer] \in AutoOps) ~> (pc[Consumer] = "f_yield")

\* the size of the value field of the command named cmd
FieldSize(cmd) == (CHOOSE c \in CMD : c.name = cmd).size

\* C29: a call of set_trigger with source EXT and a mode other than EDGE is
\* rejected, and no call of set_trigger queues a value that does not fit the
\* field of its command
C29_SetTriggerQueuesPackable ==
    [][ \A a \in CfgTriggerArgs :
            set_trigger(Caller, a)
                => /\ (a.source = EXT /\ a.mode # EDGE) => pc'[Caller] = "rejected"
                   /\ \A i \in 1 .. Len(queue') :
                          queue'[i].id > nid
                              => Fits(Wide(queue'[i].arg), FieldSize(queue'[i].cmd))
      ]_vars

\* bits lo .. lo + n - 1 of the word w
Bits(w, lo, n) == (w \div (2 ^ lo)) % (2 ^ n)

\* C30: a call of set_trigger that is accepted pushes SET_TRIGGER last; its
\* word has the alternate layout (bit 15 set, bits 10-11 zero) exactly when
\* the source is CH1 or CH2 and the last pending command before the call was
\* SET_TRIGGER, and otherwise the single layout (bit 15 clear) with the sweep
\* mode in bits 10-11
C30_AlternateLayout ==
    [][ \A a \in CfgTriggerArgs :
            (set_trigger(Caller, a) /\ pc'[Caller] # "rejected")
                => LET alt == /\ a.source \in {CH1, CH2}
                              /\ queue # <<>>
                              /\ queue[Len(queue)].cmd = "SET_TRIGGER"
                       e   == queue'[Len(queue')]
                   IN  /\ e.cmd = "SET_TRIGGER" /\ e.id = nid'
                       /\ alt => Bits(e.arg, 15, 1) = 1 /\ Bits(e.arg, 10, 2) = 0
                       /\ ~alt => Bits(e.arg, 15, 1) = 0 /\ Bits(e.arg, 10, 2) = a.sweep
      ]_vars

\* a second set_trigger on CH2 with sweep NORMAL has pushed the alternate word
C30_Witness ==
    /\ callsLeft[Caller] = 0
    /\ queue # <<>>
    /\ queue[Len(queue)].cmd = "SET_TRIGGER"
    /\ Bits(queue[Len(queue)].arg, 15, 1) = 1
    /\ sweepmode = NORMAL

\* C31: when a transfer of the keep-alive command fails for the third time in
\* a row, the keep-alive thread leaves the lock, sets the stop flag and goes
\* on to dispose; dispose acquires the lock, clears the queue, releases the
\* USB handle, and the thread ends
C31_KeepAliveTearsDown ==
    [][ /\ (/\ pc[KeepAlive] \in {"send_w", "send_r"}
            /\ pc'[KeepAlive] # pc[KeepAlive]
            /\ failures' = failures + 1 /\ failures' > 2)
           => /\ pc'[KeepAlive] = "ka_dispose"
              /\ stopFlag'
              /\ lock' # KeepAlive
        /\ (pc[KeepAlive] = "ka_dispose" /\ pc'[KeepAlive] # "ka_dispose")
           => /\ lock = NoThread
              /\ queue' = <<>>
              /\ ~handle'
              /\ pc'[KeepAlive] = "ka_done"
      ]_vars

\* the keep-alive thread has ended after a teardown that discarded commands
C31_Witness ==
    /\ pc[KeepAlive] = "ka_done"
    /\ ~handle /\ failures > 2 /\ queue = <<>>
    /\ cur[KeepAlive].cmd = "SET_RUNSTOP"

\* the step _calibrate is running
Step == <<cstate.ical, cstate.vb>>
CalFailed == {"c_false", "c_noconv", "c_raised"}

\* C32: calibrate starts with COMP on the highest range; a step begins only
\* when both channels of the step before it have converged; the COMP steps go
\* down the ranges one by one, AMPL on the lowest range follows COMP on the
\* lowest range, the AMPL steps go up one by one; after a step has failed
\* (stop flag, no convergence, exception) no further step runs in that call
C32_CompDownThenAmplUp ==
    [][ /\ (pc[Worker] = "c_acq" /\ pc'[Worker] # "c_acq")
           => cstate'.ical = COMP /\ cstate'.vb = Len(VOLT_RANGES) - 1
        /\ (pc[Worker] = "c_round" /\ Step' # Step)
           => /\ ~AnyOn(cstate.on)
              /\ (cstate.ical = COMP /\ cstate.vb > 0)
                    => Step' = <<COMP, cstate.vb - 1>>
              /\ (cstate.ical = COMP /\ cstate.vb = 0) => Step' = <<AMPL, 0>>
              /\ cstate.ical = AMPL
                    => /\ Step' = <<AMPL, cstate.vb + 1>>
                       /\ cstate.vb + 1 < Len(VOLT_RANGES)
        /\ pc[Worker] \notin {"c_acq", "c_round"} => Step' = Step
        /\ pc[Worker] \in CalFailed => UNCHANGED <<cstate, work>>
      ]_vars

\* the last AMPL step is running
C32_Witness ==
    /\ op[Worker] = "calibrate" /\ pc[Worker] = "c_wait"
    /\ cstate.phase = "steps"
    /\ Step = <<AMPL, Len(VOLT_RANGES) - 1>>

\* C33: while calibrate runs its steps, every COMP value of its working table
\* is within [500, 600] and every AMPL value within [100, 200]
C33_WorkingTableInRange ==
    (op[Worker] = "calibrate" /\ cstate.phase = "steps" /\ work # NoTable)
        => \A chl \in Channels : \A v \in 1 .. Len(VOLT_RANGES) :
              /\ COMP_MIN <= work[COMP][chl][v] /\ work[COMP][chl][v] <= COMP_MAX
              /\ AMPL_MIN <= work[AMPL][chl][v] /\ work[AMPL][chl][v] <= AMPL_MAX

\* C34: when _calibrate starts the pull of a round, a channel it has declared
\* converged in this step (on[chl] is False) is still among the channels it
\* asks the device to sample
C34_ConvergedStillSampled ==
    [][ (/\ op[Worker] = "calibrate" /\ cstate.phase = "steps"
         /\ pc[Worker] = "c_wait" /\ pc'[Worker] = "pull_w")
        => \A chl \in Channels :
              ~cstate.on[chl] => \E k \in 1 .. Len(pull'.chls) : pull'.chls[k] = chl ]_vars

\* the command cmd is pending in q with the argument arg
Holds(q, cmd, arg) == \E k \in 1 .. Len(q) : q[k].cmd = cmd /\ q[k].arg = arg

\* the rational rate n/d is below hz: n / d < hz  iff  n \div hz < d
Below(rate, hz) == rate[1] \div hz < rate[2]

\* what _push_sampling(rate, roll, peak) must have done between two states
RollModeSet(roll) ==
    /\ roll = None =>
          (rollmode' = 1 <=> Below(sampling_rate', ROLLMODE_THRESHOLD))
    /\ roll # None => rollmode' = roll
    /\ rollmode' \in {0, 1}
    /\ rollmode' # rollmode =>
          /\ Holds(queue', "SET_ROLLMODE", rollmode')
          /\ Holds(queue', "SET_DEEPMEMORY", IF rollmode' = 1 THEN ADC_SIZE + 3 ELSE ADC_SIZE)

C36_OneFramePerChannel ==
    /\ \A j, k \in 1 .. Len(pull.yielded) : j # k => pull.yielded[j] # pull.yielded[k]
    /\ pull.i <= Len(pull.yielded)
    /\ Len(pull.yielded) <= pull.n

\* stop() has set the stop flag and has not returned
StopInProgress ==
    /\ op[Caller] \in {"stop", "new"}
    /\ pc[Caller] \in {"stop_acq", "send_w", "send_r", "stop_ok"}

\* C37: while a stop() is in progress the stop flag it has set is cleared by
\* no step but the one of stop() itself that follows the halt command
C37_StopFlagKept ==
    [][ (StopInProgress /\ stopFlag /\ ~stopFlag')
        => (pc[Caller] = "stop_ok" /\ pc'[Caller] # "stop_ok") ]_vars

(***************************************************************************)
(* stop() against calibrate() and the keep-alive thread on a device that   *)
(* answers every command: no transfer fails, the device is never           *)
(* unplugged.  A reply to GET_DATA may be the busy reply any number of     *)
(* times.  Every thread that can take a step eventually takes one, and a   *)
(* stop() that finds the lock free again and again eventually gets it.     *)
(***************************************************************************)
InitStop == InitState(NoPoint, MaxCalls, 0, NoSignal)

WorkerSteps ==
    \/ calibrate_acquire
    \/ calibrate_wait
    \/ calibrate_round
    \/ calibrate_end
    \/ pull_write(Worker)
    \/ pull_read(Worker)
    \/ pull_busy(Worker)
    \/ SendWrite(Worker)
    \/ SendRead(Worker)

KeepAliveSteps ==
    \/ ka_top
    \/ ka_wait
    \/ ka_acquire
    \/ ka_release
    \/ SendWrite(KeepAlive)
    \/ SendRead(KeepAlive)

StopSteps ==
    \/ stop_acquire
    \/ stop_ok
    \/ SendWrite(Caller)
    \/ SendRead(Caller)

NextStop ==
    \/ calibrate_call
    \/ stop_call(FALSE)
    \/ WorkerSteps
    \/ KeepAliveSteps
    \/ StopSteps

SpecStop == InitStop /\ [][NextStop]_vars
SpecStopFair ==
    /\ SpecStop
    /\ WF_vars(WorkerSteps) /\ WF_vars(KeepAliveSteps) /\ WF_vars(StopSteps)
    /\ SF_vars(stop_acquire)

\* C38: a stop() that has set the stop flag eventually has the lock, sends
\* the halt command and returns
C38_StopReturns == StopInProgress ~> ~StopInProgress

(***************************************************************************)
(* One thread that configures the sampling, flushes with send and calls    *)
(* stop(), on a device without transport faults.                           *)
(***************************************************************************)
MaxDevCalls == 3
DevSamplingArgs ==
    { [rate |-> r, roll |-> None, peak |-> p] : r \in { <<7, 1>>, <<60000000, 1>> }, p \in {0, 1} }
DevTimerangeArgs == { [range |-> <<1, 20000>>, roll |-> None, peak |-> 0] }

InitDev == InitState(NoPoint, MaxDevCalls, 0, NoSignal)

NextDev ==
    \/ \E a \in DevSamplingArgs : set_sampling(Caller, a)
    \/ \E a \in DevTimerangeArgs : set_timerange(Caller, a)
    \/ \E a \in SendArgs : send_call(a)
    \/ send_acquire
    \/ send_cmd
    \/ send_ret
    \/ stop_call(FALSE)
    \/ stop_acquire
    \/ stop_ok
    \/ SendWrite(Caller)
    \/ SendRead(Caller)

SpecDev == InitDev /\ [][NextDev]_vars

\* C39: when nothing is pending and no thread holds the lock, each sampling
\* command that was written to the device was last written with the value the
\* session holds: SET_TIMEBASE with the prescaler of sampling_rate,
\* SET_ROLLMODE with rollmode, SET_PEAKMODE with peakmode
C39_DeviceStateAgrees ==
    (queue = <<>> /\ lock = NoThread) =>
        /\ sent["SET_TIMEBASE"] # None => sampling_rate = <<TOP_RATE, sent["SET_TIMEBASE"]>>
        /\ sent["SET_ROLLMODE"] # None => rollmode = sent["SET_ROLLMODE"]
        /\ sent["SET_PEAKMODE"] # None => peakmode = sent["SET_PEAKMODE"]

(***************************************************************************)
(* Flushes on a bus with transient faults: one thread calls send, and up   *)
(* to three transfers fail with USBError, enough for _on_usb_err to raise. *)
(***************************************************************************)
MaxFlushCalls == 2
MaxFlushFaults == 3

InitFlush == InitState(NoPoint, MaxFlushCalls, MaxFlushFaults, NoSignal)

NextFlush ==
    \/ \E a \in SendArgs : send_call(a)
    \/ send_acquire
    \/ send_cmd
    \/ send_ret
    \/ SendWrite(Caller)
    \/ SendRead(Caller)

SpecFlush == InitFlush /\ [][NextFlush]_vars

\* C40: when the _send of a flush raises (the third consecutive USBError),
\* the command it was sending and every command still queued are pending
\* afterwards
C40_FailedCommandKept ==
    [][ \A t \in Threads :
          (/\ pc[t] \in {"send_w", "send_r"} /\ ret[t] = "submit"
           /\ failures' = failures + 1 /\ failures' > 2)
          => /\ Holds(queue', cur[t].cmd, cur[t].arg)
             /\ \A k \in 1 .. Len(queue) : Holds(queue', queue[k].cmd, queue[k].arg) ]_vars

============================================================================
